---- MODULE Spec2Model ----
(***************************************************************************)
(* clawtop: the status aggregation and derivation pipeline.                *)
(*                                                                         *)
(* A TypeScript value that may be null or undefined is modelled as an      *)
(* option: <<>> is null/undefined, <<v>> carries v.  A Metric<T> is the    *)
(* record [known, value, reason] of src/unnamed/part_004:3-7, with value   *)
(* and reason both options.                                                *)
(***************************************************************************)
EXTENDS Integers, Sequences, FiniteSets, TLC

VARIABLES
    pc,                 \* position of the operation under study
    snapshot,           \* Omit<BoardSnapshot, "overall"> (generatedAt left out)
    overall,            \* OverallCard, or NoValue before it is derived
    workspaceDrifts,    \* argument of aggregateRepoDrift
    missingWorkspaceReason, \* argument of aggregateRepoDrift
    card,               \* RepoDriftCard returned by aggregateRepoDrift
    env,                \* the machine: is openclaw installed, the config files
    faults,             \* how many of the sources have deviated from the healthy run
    collectedStatus,    \* statusSourceMetric of collectBoardSnapshot
    outputs,            \* the promise of each collector of collectBoardSnapshot
    args,               \* arguments of the function under study
    returned,           \* what the function returned, NoValue before the call
    compatibilityWarningsPromise, \* the module-level cache of compatibility.ts
    spawned,            \* the command lines the compatibility check has spawned
    helpResult,         \* binaryHelpResult once `openclaw --help` has closed
    callers,            \* the callers of collectCompatibilityWarnings
    request,            \* CommandRequest of the runCommand call
    child,              \* the child process as Node sees it
    exitCode,           \* the code the close event carries
    stdoutParts,        \* chunks read from the child's stdout
    timeoutHandle,      \* the timer of request.timeoutMs
    killHandle,         \* the 250 ms timer armed when the timeout fires
    didTimeout,         \* didTimeout of runCommand
    signals,            \* signals delivered to the child, in order
    settled,            \* the promise runCommand returns
    resolveCalls,       \* calls of resolve so far
    terminalControlsEnabled, \* process.stdout.isTTY === true
    renderInFlight,     \* renderInFlight of runRefreshLoop
    collections,        \* snapshot collections started and not yet settled
    triggers,           \* the ticks and resize signals so far, with what each did
    frames              \* the frames drawn so far

vars == <<pc, snapshot, overall, workspaceDrifts, missingWorkspaceReason, card,
          env, faults, collectedStatus, outputs, args, returned,
          compatibilityWarningsPromise, spawned, helpResult, callers,
          request, child, exitCode, stdoutParts, timeoutHandle, killHandle,
          didTimeout, signals, settled, resolveCalls,
          terminalControlsEnabled, renderInFlight, collections, triggers, frames>>

deriveVars == <<snapshot, overall>>
aggregateVars == <<workspaceDrifts, missingWorkspaceReason, card>>
collectVars == <<env, faults, collectedStatus, outputs>>
coreVars == <<deriveVars, aggregateVars, collectVars>>
callVars == <<args, returned>>
compatVars == <<compatibilityWarningsPromise, spawned, helpResult, callers>>
commandVars == <<request, child, exitCode, stdoutParts, timeoutHandle, killHandle,
                 didTimeout, signals, settled, resolveCalls>>
refreshVars == <<terminalControlsEnabled, renderInFlight, collections, triggers, frames>>
restVars == <<callVars, compatVars, commandVars, refreshVars>>
callOthers == <<coreVars, compatVars, commandVars, refreshVars>>
compatOthers == <<coreVars, callVars, commandVars, refreshVars>>
commandOthers == <<coreVars, callVars, compatVars, refreshVars>>
refreshOthers == <<coreVars, callVars, compatVars, commandVars>>

----------------------------------------------------------------------------
(* Bounds of the model *)

MaxCount == 1           \* numeric metrics of a snapshot range over 0..MaxCount
MaxWorkspaces == 2      \* longest workspace list given to aggregateRepoDrift
MaxFaults == 1          \* sources and files that deviate from the healthy run

----------------------------------------------------------------------------
(* Options and metrics (src/unnamed/part_004) *)

Null == <<>>
Some(v) == <<v>>
NoValue == [none |-> TRUE]

\* left ?? right
Coalesce(left, right) == IF left = Null THEN right ELSE left[1]

knownMetric(value) == [known |-> TRUE, value |-> Some(value), reason |-> Null]

unknownMetric(reason) == [known |-> FALSE, value |-> Null, reason |-> Some(reason)]

RECURSIVE SeqToSet(_)
SeqToSet(s) == IF s = <<>> THEN {} ELSE {Head(s)} \cup SeqToSet(Tail(s))

RECURSIVE CountIn(_, _)
CountIn(s, x) ==
    IF s = <<>> THEN 0
    ELSE (IF Head(s) = x THEN 1 ELSE 0) + CountIn(Tail(s), x)

\* Array.prototype.filter((reason) => reason.length > 0)
NonEmptyReasons(reasons) == SelectSeq(reasons, LAMBDA reason : reason # "")

----------------------------------------------------------------------------
(* Overall-status deriver (src/src/status.ts) *)

metricGreaterThanOrEqual(metric, threshold) ==
    metric.known /\ metric.value # Null /\ metric.value[1] >= threshold

metricGreaterThan(metric, threshold) ==
    metric.known /\ metric.value # Null /\ metric.value[1] > threshold

metricEqualsBooleanIgnoringKnown(metric, expected) ==
    metric.value # Some(~expected)

metricEqualsBoolean(metric, expected) ==
    metric.known /\ metric.value = Some(expected)

metricUnknown(metric) == ~metric.known

redReasonCandidates(s) ==
    <<IF metricGreaterThan(s.security.critical, 0)
          THEN "critical security findings > 0" ELSE "",
      IF metricGreaterThan(s.cron.failingOrRecentErrorCount, 0)
          THEN "failing cron jobs > 0" ELSE "",
      IF metricEqualsBoolean(s.gateway.reachable, FALSE)
          THEN "gateway unreachable" ELSE "">>

firstRedReasonOnly(s) ==
    LET all == NonEmptyReasons(redReasonCandidates(s))
    IN  IF all = <<>> THEN <<>> ELSE <<Head(all)>>

redReasons(s) == NonEmptyReasons(redReasonCandidates(s))

\* a watch list that also holds the active session count
watchListWithSessions(s) ==
    <<s.security.critical,
      s.security.warning,
      s.cron.failingOrRecentErrorCount,
      s.channels.configuredCount,
      s.gateway.reachable,
      s.repoDrift.clean,
      s.repoDrift.behindCount,
      s.versionDrift.installedVersion,
      s.versionDrift.latestVersion,
      s.sessions.activeCount>>

watchList(s) ==
    <<s.security.critical,
      s.security.warning,
      s.cron.failingOrRecentErrorCount,
      s.channels.configuredCount,
      s.gateway.reachable,
      s.repoDrift.clean,
      s.repoDrift.behindCount,
      s.versionDrift.installedVersion,
      s.versionDrift.latestVersion>>

criticalUnknownWithoutLatestVersion(s) ==
    \E i \in 1..(Len(watchList(s)) - 1) : metricUnknown(watchList(s)[i])

criticalUnknown(s) ==
    \E i \in 1..Len(watchList(s)) : metricUnknown(watchList(s)[i])

amberReasons(s) ==
    NonEmptyReasons(<<
        IF metricGreaterThan(s.security.warning, 0)
            THEN "warning findings > 0" ELSE "",
        IF criticalUnknown(s)
            THEN "unknown state in critical cards" ELSE "",
        IF metricEqualsBoolean(s.repoDrift.clean, FALSE)
            THEN "repo drift: dirty repository" ELSE "",
        IF metricGreaterThan(s.repoDrift.behindCount, 0)
            THEN "repo drift: behind upstream" ELSE "">>)

deriveOverallCard(s) ==
    IF Len(redReasons(s)) > 0
        THEN [level |-> "RED", reasons |-> redReasons(s)]
    ELSE IF Len(amberReasons(s)) > 0
        THEN [level |-> "AMBER", reasons |-> amberReasons(s)]
    ELSE [level |-> "GREEN", reasons |-> <<"all health checks passed">>]

----------------------------------------------------------------------------
(* Repo-drift aggregator (src/src/collectors/channels.ts, repoDrift part) *)

RECURSIVE MapField(_, _)
MapField(workspaces, field) ==
    IF workspaces = <<>> THEN <<>>
    ELSE <<Head(workspaces)[field]>> \o MapField(Tail(workspaces), field)

\* metrics.map((metric) => metric.value ?? 0).reduce((sum, value) => sum + value, 0)
RECURSIVE SumValues(_)
SumValues(metrics) ==
    IF metrics = <<>> THEN 0
    ELSE Coalesce(Head(metrics).value, 0) + SumValues(Tail(metrics))

aggregateBooleanMetricUnknownFirst(metrics, unknownReason) ==
    LET unknownMetrics == SelectSeq(metrics, LAMBDA metric : ~metric.known)
        knownMetrics == SelectSeq(metrics,
            LAMBDA metric : metric.known /\ metric.value # Null)
    IN  IF Len(unknownMetrics) > 0
            THEN unknownMetric(Coalesce(unknownMetrics[1].reason, unknownReason))
        ELSE IF \E i \in 1..Len(knownMetrics) : knownMetrics[i].value # Some(TRUE)
            THEN knownMetric(FALSE)
        ELSE knownMetric(TRUE)

aggregateBooleanMetric(metrics, unknownReason) ==
    LET knownMetrics == SelectSeq(metrics,
            LAMBDA metric : metric.known /\ metric.value # Null)
        \* knownValues[i] is (knownMetrics[i].value === true)
        knownValuesIncludesFalse ==
            \E i \in 1..Len(knownMetrics) : knownMetrics[i].value # Some(TRUE)
        unknownMetrics == SelectSeq(metrics, LAMBDA metric : ~metric.known)
    IN  IF knownValuesIncludesFalse
            THEN knownMetric(FALSE)
        ELSE IF Len(unknownMetrics) > 0
            THEN unknownMetric(Coalesce(unknownMetrics[1].reason, unknownReason))
        ELSE knownMetric(TRUE)

\* aggregateCountMetric that lets the first workspace decide
aggregateCountMetricOfFirst(metrics, unknownReason) == metrics[1]

aggregateCountMetricLastReason(metrics, unknownReason) ==
    LET unknownMetrics == SelectSeq(metrics,
            LAMBDA metric : ~metric.known \/ metric.value = Null)
    IN  IF Len(unknownMetrics) > 0
            THEN unknownMetric(
                Coalesce(unknownMetrics[Len(unknownMetrics)].reason, unknownReason))
        ELSE knownMetric(SumValues(metrics))

aggregateCountMetric(metrics, unknownReason) ==
    LET unknownMetrics == SelectSeq(metrics,
            LAMBDA metric : ~metric.known \/ metric.value = Null)
    IN  IF Len(unknownMetrics) > 0
            THEN unknownMetric(Coalesce(unknownMetrics[1].reason, unknownReason))
        ELSE knownMetric(SumValues(metrics))

dirtyCountMetricWhenAnyKnown(drifts) ==
    IF \E i \in 1..Len(drifts) : drifts[i].clean.known
        THEN knownMetric(Len(SelectSeq(drifts,
            LAMBDA workspace : workspace.clean.value = Some(FALSE))))
    ELSE unknownMetric("dirty count unavailable from one or more repositories")

\* dirtyCountMetric that counts the clean workspaces
dirtyCountMetricOfClean(drifts) ==
    IF \A i \in 1..Len(drifts) : drifts[i].clean.known
        THEN knownMetric(Len(SelectSeq(drifts,
            LAMBDA workspace : workspace.clean.value = Some(TRUE))))
    ELSE unknownMetric("dirty count unavailable from one or more repositories")

dirtyCountMetric(drifts) ==
    IF \A i \in 1..Len(drifts) : drifts[i].clean.known
        THEN knownMetric(Len(SelectSeq(drifts,
            LAMBDA workspace : workspace.clean.value = Some(FALSE))))
    ELSE unknownMetric("dirty count unavailable from one or more repositories")

repositoryCount(drifts) ==
    Len(SelectSeq(drifts, LAMBDA workspace : workspace.repositoryRoot.known))

aggregateWorkspaces(drifts) ==
    [aheadCount |-> aggregateCountMetric(MapField(drifts, "aheadCount"),
                                         "ahead count unknown"),
     behindCount |-> aggregateCountMetric(MapField(drifts, "behindCount"),
                                          "behind count unknown"),
     clean |-> aggregateBooleanMetric(MapField(drifts, "clean"),
                                      "repo cleanliness unknown"),
     dirtyCount |-> dirtyCountMetric(drifts),
     repositoryCount |-> knownMetric(repositoryCount(drifts)),
     workspaces |-> drifts]

aggregateRepoDriftWithoutEmptyGuard(drifts, missingReason) ==
    aggregateWorkspaces(drifts)

aggregateRepoDrift(drifts, missingReason) ==
    IF Len(drifts) = 0
        THEN [aheadCount |-> unknownMetric(missingReason),
              behindCount |-> unknownMetric(missingReason),
              clean |-> unknownMetric(missingReason),
              dirtyCount |-> unknownMetric(missingReason),
              repositoryCount |-> unknownMetric(missingReason),
              workspaces |-> <<>>]
    ELSE aggregateWorkspaces(drifts)

----------------------------------------------------------------------------
(* Inputs of the deriver: snapshots built from well-formed metrics *)

Counts == 0..MaxCount

CountMetrics == {knownMetric(n) : n \in Counts} \cup {unknownMetric("count unavailable")}

BooleanMetrics == {knownMetric(b) : b \in BOOLEAN} \cup {unknownMetric("state unavailable")}

VersionMetrics == {knownMetric("2026.2.9"), unknownMetric("version unavailable")}

\* healthySnapshot() of the deriver's tests, the baseline of the other fields
healthySnapshot ==
    [agents |-> [configuredCount |-> knownMetric(1)],
     channels |-> [configuredCount |-> knownMetric(1), connectedCount |-> knownMetric(1)],
     cron |-> [enabledCount |-> knownMetric(1), failingOrRecentErrorCount |-> knownMetric(0)],
     gateway |-> [error |-> unknownMetric("no error"), reachable |-> knownMetric(TRUE)],
     repoDrift |-> [aheadCount |-> knownMetric(0), behindCount |-> knownMetric(0),
                    clean |-> knownMetric(TRUE), dirtyCount |-> knownMetric(0),
                    repositoryCount |-> knownMetric(1), workspaces |-> <<>>],
     security |-> [critical |-> knownMetric(0), info |-> knownMetric(1),
                   warning |-> knownMetric(0)],
     sessions |-> [activeCount |-> knownMetric(1), activeWindowMinutes |-> 60],
     versionDrift |-> [installedVersion |-> knownMetric("2026.2.9"),
                       latestVersion |-> knownMetric("2026.2.9"),
                       updateAvailable |-> knownMetric(FALSE)],
     warnings |-> <<>>]

DeriveInputs ==
    {[healthySnapshot EXCEPT
        !.security.critical = critical,
        !.security.warning = warning,
        !.cron.failingOrRecentErrorCount = failing,
        !.channels.configuredCount = configured,
        !.gateway.reachable = reachable,
        !.repoDrift.clean = clean,
        !.repoDrift.behindCount = behind,
        !.versionDrift.installedVersion = installed,
        !.versionDrift.latestVersion = latest] :
        critical \in CountMetrics, warning \in CountMetrics, failing \in CountMetrics,
        configured \in CountMetrics, reachable \in BooleanMetrics,
        clean \in BooleanMetrics, behind \in CountMetrics,
        installed \in VersionMetrics, latest \in VersionMetrics}

CallIdle ==
    /\ args = NoValue
    /\ returned = NoValue

CompatIdle ==
    /\ compatibilityWarningsPromise = NoValue
    /\ spawned = NoValue
    /\ helpResult = NoValue
    /\ callers = NoValue

CommandIdle ==
    /\ request = NoValue
    /\ child = "none"
    /\ exitCode = <<>>
    /\ stdoutParts = <<>>
    /\ timeoutHandle = "none"
    /\ killHandle = "none"
    /\ didTimeout = FALSE
    /\ signals = <<>>
    /\ settled = NoValue
    /\ resolveCalls = 0

RefreshIdle ==
    /\ terminalControlsEnabled = FALSE
    /\ renderInFlight = FALSE
    /\ collections = 0
    /\ triggers = <<>>
    /\ frames = <<>>

RestIdle == CallIdle /\ CompatIdle /\ CommandIdle /\ RefreshIdle

AggregateIdle ==
    /\ workspaceDrifts = <<>>
    /\ missingWorkspaceReason = ""
    /\ card = NoValue

CollectIdle ==
    /\ env = NoValue
    /\ faults = 0
    /\ collectedStatus = NoValue
    /\ outputs = NoValue

DeriveInit ==
    /\ pc = "derive"
    /\ snapshot \in DeriveInputs
    /\ overall = NoValue
    /\ AggregateIdle
    /\ CollectIdle
    /\ RestIdle

DeriveOverall ==
    /\ pc = "derive"
    /\ overall' = deriveOverallCard(snapshot)
    /\ pc' = "derived"
    /\ UNCHANGED <<snapshot, aggregateVars, collectVars, restVars>>

DeriveNext == DeriveOverall

SpecDerive == DeriveInit /\ [][DeriveNext]_vars

----------------------------------------------------------------------------
(* Inputs of the aggregator: lists of well-formed workspace records.  The
   i-th workspace has its own path, and the reason of each of its unknown
   metrics names the metric and the path, so that reasons tell the workspaces
   and the metrics apart. *)

WorkspacePath(i) == "/workspace/" \o ToString(i)

\* ahead/behind counts of one workspace
DriftCounts == {0, 1}

WorkspaceInputs(i) ==
    {[aheadCount |-> ahead, behindCount |-> behind, clean |-> clean,
      diagnostics |-> <<>>, repositoryRoot |-> root,
      workspacePath |-> WorkspacePath(i)] :
        ahead \in {knownMetric(n) : n \in DriftCounts}
            \cup {unknownMetric("ahead unavailable: " \o WorkspacePath(i))},
        behind \in {knownMetric(n) : n \in DriftCounts}
            \cup {unknownMetric("behind unavailable: " \o WorkspacePath(i))},
        clean \in {knownMetric(b) : b \in BOOLEAN}
            \cup {unknownMetric("status unavailable: " \o WorkspacePath(i))},
        root \in {knownMetric("/repo/" \o ToString(i)),
                  unknownMetric("not a repository: " \o WorkspacePath(i))}}

MissingReasons == {"missing", "no repositories discovered"}

DeriveIdle ==
    /\ snapshot = NoValue
    /\ overall = NoValue

AggregateInit ==
    /\ pc = "aggregate"
    /\ workspaceDrifts = <<>>
    /\ missingWorkspaceReason \in MissingReasons
    /\ card = NoValue
    /\ DeriveIdle
    /\ CollectIdle
    /\ RestIdle

\* the caller puts one more workspace record on the list it will aggregate
AddWorkspace ==
    /\ pc = "aggregate"
    /\ Len(workspaceDrifts) < MaxWorkspaces
    /\ \E workspace \in WorkspaceInputs(Len(workspaceDrifts) + 1) :
            workspaceDrifts' = Append(workspaceDrifts, workspace)
    /\ UNCHANGED <<pc, missingWorkspaceReason, card, deriveVars, collectVars, restVars>>

Aggregate ==
    /\ pc = "aggregate"
    /\ card' = aggregateRepoDrift(workspaceDrifts, missingWorkspaceReason)
    /\ pc' = "aggregated"
    /\ UNCHANGED <<workspaceDrifts, missingWorkspaceReason, deriveVars, collectVars, restVars>>

AggregateNext == AddWorkspace \/ Aggregate

SpecAggregate == AggregateInit /\ [][AggregateNext]_vars

----------------------------------------------------------------------------
(* External-command bridge (src/src/collectors/openclaw.ts)

   The standard output of a command is modelled by what the collectors read
   from it: the whitespace-separated tokens of its text (none when the
   trimmed text is empty) and the JSON value the text denotes, if it is JSON.
   A JSON value carries the shape a zod schema tests in its "shape" field.
   The standard error text is the sequence of its lines. *)

RECURSIVE JoinWith(_, _)
JoinWith(strings, separator) ==
    IF Len(strings) = 0 THEN ""
    ELSE IF Len(strings) = 1 THEN strings[1]
    ELSE strings[1] \o separator \o JoinWith(Tail(strings), separator)

BlankOut == [text |-> <<>>, json |-> Null]
GarbageOut == [text |-> <<"garbage">>, json |-> Null]
JsonOut(value) == [text |-> <<"{json}">>, json |-> Some(value)]
TextOut(tokens) == [text |-> tokens, json |-> Null]

\* a well-formed JSON document that matches none of the schemas
OtherJson == [shape |-> "other"]

\* the CommandResult values runCommand resolves with
OkResult(command, stdout) ==
    [ok |-> TRUE, code |-> Some(0), command |-> command, reason |-> Null,
     stderr |-> <<>>, stdout |-> stdout]

NotFoundResult(command) ==
    [ok |-> FALSE, code |-> Null, command |-> command,
     reason |-> Some(command \o " not found"), stderr |-> <<>>, stdout |-> BlankOut]

ExitResult(command, code, stderr) ==
    [ok |-> FALSE, code |-> Some(code), command |-> command,
     reason |-> Some(command \o " exited with code " \o ToString(code)),
     stderr |-> stderr, stdout |-> BlankOut]

TimeoutResult(command, timeoutMs) ==
    [ok |-> FALSE, code |-> Null, command |-> command,
     reason |-> Some(command \o " timed out after " \o ToString(timeoutMs) \o "ms"),
     stderr |-> <<>>, stdout |-> BlankOut]

commandReason(result) ==
    IF result.reason # Null THEN result.reason[1]
    ELSE result.command \o " exited with code "
            \o (IF result.code = Null THEN "null" ELSE ToString(result.code[1]))
            \o (IF result.stderr # <<>>
                    THEN " (" \o JoinWith(result.stderr, "\n") \o ")" ELSE "")

\* schema.safeParse(parsedJson).success
SchemaAccepts(schema, parsedJson) == parsedJson.shape = schema

\* jsonMetricFromCommand that reads the output before it tests result.ok
jsonMetricFromCommandOutputFirst(result, schema, label) ==
    IF result.stdout.text = <<>>
        THEN unknownMetric(label \o ": empty output")
    ELSE IF result.stdout.json = Null
        THEN unknownMetric(label \o ": Unexpected token in JSON")
    ELSE IF ~SchemaAccepts(schema, result.stdout.json[1])
        THEN unknownMetric(label \o ": schema mismatch")
    ELSE IF ~result.ok
        THEN unknownMetric(label \o ": " \o commandReason(result))
    ELSE knownMetric(result.stdout.json[1])

jsonMetricFromCommand(result, schema, label) ==
    IF ~result.ok
        THEN unknownMetric(label \o ": " \o commandReason(result))
    ELSE IF result.stdout.text = <<>>
        THEN unknownMetric(label \o ": empty output")
    ELSE IF result.stdout.json = Null
        THEN unknownMetric(label \o ": Unexpected token in JSON")
    ELSE IF ~SchemaAccepts(schema, result.stdout.json[1])
        THEN unknownMetric(label \o ": schema mismatch")
    ELSE knownMetric(result.stdout.json[1])

textMetricFromCommand(result, label) ==
    IF ~result.ok
        THEN unknownMetric(label \o ": " \o commandReason(result))
    ELSE IF result.stdout.text = <<>>
        THEN unknownMetric(label \o ": empty output")
    ELSE knownMetric(result.stdout.text)

buildWarning(source, code, reason, severity, context) ==
    [code |-> code, context |-> context, reason |-> reason,
     severity |-> severity, source |-> source]

\* the results `openclaw <args>` can resolve with: every fault of a command
\* that prints JSON, and the successful results with the given documents
JsonTimeoutMs == 10000
TextTimeoutMs == 8000
GitTimeoutMs == 4000

JsonCommandFaults ==
    {ExitResult("openclaw", 1, <<"boom">>),
     TimeoutResult("openclaw", JsonTimeoutMs),
     OkResult("openclaw", BlankOut),
     OkResult("openclaw", GarbageOut),
     OkResult("openclaw", JsonOut(OtherJson))}

TextCommandFaults ==
    {ExitResult("openclaw", 1, <<"boom">>),
     TimeoutResult("openclaw", TextTimeoutMs),
     OkResult("openclaw", BlankOut)}

----------------------------------------------------------------------------
(* Promises and optional chaining *)

Pending == [state |-> "pending", value |-> NoValue, error |-> ""]
Fulfilled(value) == [state |-> "fulfilled", value |-> value, error |-> ""]
Rejected(error) == [state |-> "rejected", value |-> NoValue, error |-> error]

\* object?.field, for an optional object whose field is optional too
Get(object, field) == IF object = Null THEN Null ELSE object[1][field]

CollectorOutput(cardValue, warnings) == [card |-> cardValue, warnings |-> warnings]

----------------------------------------------------------------------------
(* Local files (src/src/collectors/openclaw.ts:256-322).  A file is there or
   not, can be read or not, and its content is text that may denote JSON. *)

MissingFile == [exists |-> FALSE, readable |-> FALSE, content |-> BlankOut]
UnreadableFile == [exists |-> TRUE, readable |-> FALSE, content |-> BlankOut]
FileWith(content) == [exists |-> TRUE, readable |-> TRUE, content |-> content]

ConfigPaths == <<"~/.config/openclaw/openclaw.json", "~/.openclaw/openclaw.json">>
StateRoots == <<"~/.local/state/openclaw", "~/.openclaw">>

\* the loop of readOpenClawConfig over the candidate files from index i on;
\* readFile is awaited outside any try block, so its failure rejects
RECURSIVE readOpenClawConfigFrom(_, _)
readOpenClawConfigFrom(files, i) ==
    IF i > Len(files)
        THEN Fulfilled(unknownMetric("openclaw config not found or unreadable"))
    ELSE IF ~files[i].exists
        THEN readOpenClawConfigFrom(files, i + 1)
    ELSE IF ~files[i].readable
        THEN Rejected("EACCES: permission denied, open '" \o ConfigPaths[i] \o "'")
    ELSE IF files[i].content.json = Null
        THEN readOpenClawConfigFrom(files, i + 1)
    ELSE IF SchemaAccepts("config", files[i].content.json[1])
        THEN Fulfilled(knownMetric(files[i].content.json[1]))
    ELSE readOpenClawConfigFrom(files, i + 1)

readOpenClawConfig(files) == readOpenClawConfigFrom(files, 1)

readJsonFileWithSchema(file, filePath, schema) ==
    IF ~file.exists
        THEN Fulfilled(unknownMetric(filePath \o " not found"))
    ELSE IF ~file.readable
        THEN Rejected("EACCES: permission denied, open '" \o filePath \o "'")
    ELSE IF file.content.json = Null
        THEN Fulfilled(unknownMetric(filePath \o " contains invalid json"))
    ELSE IF ~SchemaAccepts(schema, file.content.json[1])
        THEN Fulfilled(unknownMetric(filePath \o " schema mismatch"))
    ELSE Fulfilled(knownMetric(file.content.json[1]))

----------------------------------------------------------------------------
(* Gateway collector (src/src/collectors/gateway.ts) *)

\* gatewayFromStatus without the typeof test on the reachable flag
gatewayFromStatusWithoutTypeCheck(statusSource) ==
    LET reachable == Get(statusSource.gateway, "reachable")
        error == Get(statusSource.gateway, "error")
    IN  [error |-> IF error # Null THEN knownMetric(error[1])
                   ELSE unknownMetric("gateway error not provided"),
         reachable |-> [known |-> TRUE, value |-> reachable, reason |-> Null]]

gatewayFromStatus(statusSource) ==
    LET reachable == Get(statusSource.gateway, "reachable")
        error == Get(statusSource.gateway, "error")
    IN  IF reachable # Null
            THEN [error |-> IF error # Null THEN knownMetric(error[1])
                            ELSE unknownMetric("gateway error not provided"),
                  reachable |-> knownMetric(reachable[1])]
        ELSE [error |-> IF error # Null THEN knownMetric(error[1])
                        ELSE unknownMetric("gateway state unavailable"),
              reachable |-> unknownMetric("gateway reachability unavailable")]

fallbackGatewayCard(reason) ==
    [error |-> unknownMetric(reason), reachable |-> unknownMetric(reason)]

\* warningsForReachability that does not escalate an unreachable gateway
warningsForReachabilityAllWarn(reachable) ==
    IF ~reachable.known
        THEN <<buildWarning("gateway", "gateway_reachability_unknown",
                Coalesce(reachable.reason, "gateway reachability unknown"), "warn", Null)>>
    ELSE IF reachable.value = Some(FALSE)
        THEN <<buildWarning("gateway", "gateway_unreachable", "gateway unreachable",
                "warn", Null)>>
    ELSE <<>>

\* warningsForReachability that is silent about an unknown reachability
warningsForReachabilityWhenKnown(reachable) ==
    IF reachable.known /\ reachable.value = Some(FALSE)
        THEN <<buildWarning("gateway", "gateway_unreachable", "gateway unreachable",
                "error", Null)>>
    ELSE <<>>

warningsForReachability(reachable) ==
    IF ~reachable.known
        THEN <<buildWarning("gateway", "gateway_reachability_unknown",
                Coalesce(reachable.reason, "gateway reachability unknown"), "warn", Null)>>
    ELSE IF reachable.value = Some(FALSE)
        THEN <<buildWarning("gateway", "gateway_unreachable", "gateway unreachable",
                "error", Null)>>
    ELSE <<>>

collectGatewayCard(statusSourceMetric) ==
    IF ~statusSourceMetric.known \/ statusSourceMetric.value = Null
        THEN LET gatewayCard == fallbackGatewayCard(
                    Coalesce(statusSourceMetric.reason, "status source unavailable"))
             IN  CollectorOutput(gatewayCard, warningsForReachability(gatewayCard.reachable))
    ELSE LET gatewayCard == gatewayFromStatus(statusSourceMetric.value[1])
         IN  CollectorOutput(gatewayCard, warningsForReachability(gatewayCard.reachable))

----------------------------------------------------------------------------
(* Security collector (src/unnamed/part_002:415-480) *)

securityFromSummary(summary) ==
    [critical |-> knownMetric(summary.critical),
     info |-> knownMetric(summary.info),
     warning |-> knownMetric(summary.warn)]

unknownSecurityCard(reason) ==
    [critical |-> unknownMetric(reason),
     info |-> unknownMetric(reason),
     warning |-> unknownMetric(reason)]

collectSecurityCard(statusSourceMetric, auditResult) ==
    LET securityAuditMetric == jsonMetricFromCommand(auditResult, "securityAudit",
            "openclaw security audit --json")
        fallbackSummary == Get(Get(statusSourceMetric.value, "securityAudit"), "summary")
    IN  IF securityAuditMetric.known /\ securityAuditMetric.value # Null
            THEN Fulfilled(CollectorOutput(
                    securityFromSummary(securityAuditMetric.value[1].summary), <<>>))
        ELSE IF fallbackSummary # Null
            THEN Fulfilled(CollectorOutput(
                    securityFromSummary(fallbackSummary[1]),
                    <<buildWarning("security", "security_audit_fallback_status",
                        Coalesce(securityAuditMetric.reason,
                                 "security audit command unavailable"),
                        "warn", Null)>>))
        ELSE LET reason == IF securityAuditMetric.reason # Null
                                THEN securityAuditMetric.reason[1]
                           ELSE Coalesce(statusSourceMetric.reason,
                                         "security summary unavailable")
             IN  Fulfilled(CollectorOutput(unknownSecurityCard(reason),
                    <<buildWarning("security", "security_summary_unknown", reason,
                        "warn", Null)>>))

----------------------------------------------------------------------------
(* Cron collector (src/src/collectors/cron.ts) *)

jobHasFailed(job) ==
    LET hasConsecutiveErrors == Coalesce(Get(job.state, "consecutiveErrors"), 0) > 0
        lastStatus == Get(job.state, "lastStatus")
        hasNonOkLastStatus == lastStatus # Null /\ lastStatus # Some("ok")
    IN  hasConsecutiveErrors \/ hasNonOkLastStatus

\* collectFailingCount that counts the disabled jobs too
collectFailingCountOfAllJobs(jobs) == Len(SelectSeq(jobs, jobHasFailed))

collectFailingCount(jobs) ==
    Len(SelectSeq(SelectSeq(jobs, LAMBDA job : job.enabled = Some(TRUE)), jobHasFailed))

unknownCronCard(reason) ==
    [enabledCount |-> unknownMetric(reason),
     failingOrRecentErrorCount |-> unknownMetric(reason)]

collectCronCard(statusResult, listResult) ==
    LET cronStatusMetric == jsonMetricFromCommand(statusResult, "cronStatus",
            "openclaw cron status --json")
        cronListMetric == jsonMetricFromCommand(listResult, "cronList",
            "openclaw cron list --all --json")
    IN  IF cronListMetric.known /\ cronListMetric.value # Null
            THEN LET jobs == cronListMetric.value[1].jobs
                 IN  Fulfilled(CollectorOutput(
                        [enabledCount |-> knownMetric(
                            Len(SelectSeq(jobs, LAMBDA job : job.enabled = Some(TRUE)))),
                         failingOrRecentErrorCount |-> knownMetric(collectFailingCount(jobs))],
                        IF cronStatusMetric.known THEN <<>>
                        ELSE <<buildWarning("cron", "cron_status_unavailable",
                                Coalesce(cronStatusMetric.reason,
                                         "cron status command unavailable"),
                                "warn", Null)>>))
        ELSE IF cronStatusMetric.known /\ cronStatusMetric.value # Null
            THEN Fulfilled(CollectorOutput(
                    [enabledCount |-> knownMetric(
                        IF cronStatusMetric.value[1].enabled
                            THEN cronStatusMetric.value[1].jobs ELSE 0),
                     failingOrRecentErrorCount |-> unknownMetric(
                        Coalesce(cronListMetric.reason, "cron list unavailable"))],
                    <<buildWarning("cron", "cron_list_unavailable",
                        Coalesce(cronListMetric.reason, "cron list unavailable"),
                        "warn", Null)>>))
        ELSE LET reason == IF cronListMetric.reason # Null THEN cronListMetric.reason[1]
                           ELSE Coalesce(cronStatusMetric.reason, "cron status unavailable")
             IN  Fulfilled(CollectorOutput(unknownCronCard(reason),
                    <<buildWarning("cron", "cron_unknown", reason, "warn", Null)>>))

----------------------------------------------------------------------------
(* Channels collector (src/src/collectors/channels.ts:1-70).  The entries of
   the channels record are kept as a sequence, in key order. *)

configuredCountFromConfig(configMetric) ==
    IF ~configMetric.known \/ configMetric.value = Null
        THEN unknownMetric(Coalesce(configMetric.reason, "openclaw config unavailable"))
    ELSE knownMetric(Len(Coalesce(configMetric.value[1].channels, <<>>)))

collectChannelsCard(channelsResult, configPromise) ==
    LET channelsMetric == jsonMetricFromCommand(channelsResult, "channelsStatus",
            "openclaw channels status --json")
    IN  IF configPromise.state = "rejected" THEN Rejected(configPromise.error)
        ELSE IF channelsMetric.known /\ channelsMetric.value # Null
            THEN LET channelEntries == channelsMetric.value[1].channels
                     configuredCount == Len(SelectSeq(channelEntries,
                        LAMBDA entry : entry.configured = Some(TRUE)))
                     connectedEntries == SelectSeq(channelEntries,
                        LAMBDA entry : entry.connected # Null)
                     connectedCountMetric ==
                        IF Len(connectedEntries) > 0
                            THEN knownMetric(Len(SelectSeq(connectedEntries,
                                    LAMBDA entry : entry.connected = Some(TRUE))))
                        ELSE unknownMetric(
                                "channel providers did not expose connected state")
                 IN  Fulfilled(CollectorOutput(
                        [configuredCount |-> knownMetric(configuredCount),
                         connectedCount |-> connectedCountMetric],
                        IF connectedCountMetric.known THEN <<>>
                        ELSE <<buildWarning("channels", "channels_connected_unknown",
                                Coalesce(connectedCountMetric.reason,
                                         "connected count unknown"),
                                "info", Null)>>))
        ELSE LET configuredCount == configuredCountFromConfig(configPromise.value)
                 connectedReason == Coalesce(channelsMetric.reason,
                                             "channels status unavailable")
             IN  Fulfilled(CollectorOutput(
                    [configuredCount |-> configuredCount,
                     connectedCount |-> unknownMetric(connectedReason)],
                    <<buildWarning("channels", "channels_status_unavailable",
                        connectedReason, "warn", Null)>>))

----------------------------------------------------------------------------
(* Sessions collector (src/src/collectors/channels.ts:72-115) *)

defaultActiveSessionWindowMinutes == 60

activeCountFromPayload(payload) ==
    IF payload.count # Null THEN payload.count[1]
    ELSE IF payload.sessions # Null THEN Len(payload.sessions[1])
    ELSE 0

collectSessionsCard(activeWindowMinutes, sessionsResult) ==
    LET sessionsMetric == jsonMetricFromCommand(sessionsResult, "sessions",
            "openclaw sessions --json --active " \o ToString(activeWindowMinutes))
    IN  IF sessionsMetric.known /\ sessionsMetric.value # Null
            THEN Fulfilled(CollectorOutput(
                    [activeCount |-> knownMetric(
                        activeCountFromPayload(sessionsMetric.value[1])),
                     activeWindowMinutes |-> activeWindowMinutes],
                    <<>>))
        ELSE LET reason == Coalesce(sessionsMetric.reason, "active sessions unavailable")
             IN  Fulfilled(CollectorOutput(
                    [activeCount |-> unknownMetric(reason),
                     activeWindowMinutes |-> activeWindowMinutes],
                    <<buildWarning("sessions", "sessions_active_unknown", reason,
                        "warn", Null)>>))

----------------------------------------------------------------------------
(* Agents collector (src/unnamed/part_003) *)

countFromStatusSource(statusSourceMetric) ==
    LET agents == Get(Get(statusSourceMetric.value, "agents"), "agents")
    IN  IF agents # Null THEN knownMetric(Len(agents[1]))
        ELSE unknownMetric(Coalesce(statusSourceMetric.reason,
                                    "status source unavailable for agents"))

collectAgentsCard(statusSourceMetric, agentsResult, configPromise) ==
    LET agentsListMetric == jsonMetricFromCommand(agentsResult, "agentsList",
            "openclaw agents list --json")
        unavailable == buildWarning("agents", "agents_list_unavailable",
            Coalesce(agentsListMetric.reason, "agents list command unavailable"),
            "warn", Null)
    IN  IF configPromise.state = "rejected" THEN Rejected(configPromise.error)
        ELSE IF agentsListMetric.known /\ agentsListMetric.value # Null
            THEN Fulfilled(CollectorOutput(
                    [configuredCount |-> knownMetric(Len(agentsListMetric.value[1].items))],
                    <<>>))
        ELSE LET statusCount == countFromStatusSource(statusSourceMetric)
                 configMetric == configPromise.value
                 configAgents == Get(Get(configMetric.value, "agents"), "list")
                 reason ==
                    IF agentsListMetric.reason # Null THEN agentsListMetric.reason[1]
                    ELSE IF statusSourceMetric.reason # Null
                        THEN statusSourceMetric.reason[1]
                    ELSE Coalesce(configMetric.reason, "agent count unavailable")
             IN  IF statusCount.known
                    THEN Fulfilled(CollectorOutput(
                            [configuredCount |-> statusCount], <<unavailable>>))
                 ELSE IF configAgents # Null
                    THEN Fulfilled(CollectorOutput(
                            [configuredCount |-> knownMetric(Len(configAgents[1]))],
                            <<unavailable>>))
                 ELSE Fulfilled(CollectorOutput(
                        [configuredCount |-> unknownMetric(reason)],
                        <<buildWarning("agents", "agents_unknown", reason,
                            "warn", Null)>>))

----------------------------------------------------------------------------
(* Version texts.  A text that the code matches against the version pattern
   or splits on "." is the sequence of its whitespace-separated tokens, and a
   token is the sequence of its "."-separated components.  A component is
   either all digits (Digits) or has no digit at all (Letters). *)

Digits(n) == [num |-> TRUE, n |-> n, w |-> ""]
Letters(w) == [num |-> FALSE, n |-> 0, w |-> w]

ComponentText(component) ==
    IF component.num THEN ToString(component.n) ELSE component.w

\* the text as the string it stands for
TextToString(text) ==
    JoinWith([i \in 1..Len(text) |->
                JoinWith([j \in 1..Len(text[i]) |-> ComponentText(text[i][j])], ".")],
             " ")

\* where /[0-9]+(?:\.[0-9]+)+/ first matches in a token: the first component
\* that is numeric and followed by a numeric one, 0 when there is none
MatchStart(token) ==
    IF \E i \in 1..(Len(token) - 1) : token[i].num /\ token[i + 1].num
        THEN CHOOSE i \in 1..(Len(token) - 1) :
                /\ token[i].num /\ token[i + 1].num
                /\ \A j \in 1..(i - 1) : ~(token[j].num /\ token[j + 1].num)
    ELSE 0

\* the greedy end of the match that starts at component i
MatchEnd(token, i) ==
    CHOOSE j \in i..Len(token) :
        /\ \A k \in i..j : token[k].num
        /\ (j = Len(token) \/ ~token[j + 1].num)

\* rawValue.match(versionTokenPattern)?.[1], Null when nothing matches
versionTokenMatch(rawValue) ==
    IF \E i \in 1..Len(rawValue) : MatchStart(rawValue[i]) > 0
        THEN LET first == CHOOSE i \in 1..Len(rawValue) :
                    /\ MatchStart(rawValue[i]) > 0
                    /\ \A j \in 1..(i - 1) : MatchStart(rawValue[j]) = 0
                 start == MatchStart(rawValue[first])
             IN  Some(<<SubSeq(rawValue[first], start, MatchEnd(rawValue[first], start))>>)
    ELSE Null

normalizeVersion(rawValue) == Coalesce(versionTokenMatch(rawValue), rawValue)

\* value.split(".").map(Number), NaN replaced by 0; a part that spans two
\* tokens holds white space and is not a number
FiniteOrZero(component) == IF component.num THEN component.n ELSE 0

RECURSIVE toParts(_)
toParts(value) ==
    IF Len(value) = 0 THEN <<0>>
    ELSE IF Len(value) = 1
        THEN [i \in 1..Len(value[1]) |-> FiniteOrZero(value[1][i])]
    ELSE [i \in 1..(Len(value[1]) - 1) |-> FiniteOrZero(value[1][i])]
            \o <<0>> \o Tail(toParts(Tail(value)))

Max(a, b) == IF a >= b THEN a ELSE b

PartAt(parts, index) == IF index <= Len(parts) THEN parts[index] ELSE 0

RECURSIVE comparePartsFrom(_, _, _)
comparePartsFrom(leftParts, rightParts, index) ==
    IF index > Max(Len(leftParts), Len(rightParts)) THEN 0
    ELSE IF PartAt(leftParts, index) > PartAt(rightParts, index) THEN 1
    ELSE IF PartAt(leftParts, index) < PartAt(rightParts, index) THEN -1
    ELSE comparePartsFrom(leftParts, rightParts, index + 1)

\* compareDotVersions that stops at the end of the shorter version
compareDotVersionsToShorter(left, right) ==
    LET leftParts == toParts(left)
        rightParts == toParts(right)
        shorter == IF Len(leftParts) <= Len(rightParts) THEN Len(leftParts)
                   ELSE Len(rightParts)
    IN  comparePartsFrom(SubSeq(leftParts, 1, shorter), SubSeq(rightParts, 1, shorter), 1)

compareDotVersions(left, right) == comparePartsFrom(toParts(left), toParts(right), 1)

----------------------------------------------------------------------------
(* Version drift collector (src/src/collectors/statusSource.ts:40-194) *)

latestVersionFromStatus(statusSourceMetric) ==
    LET latestVersion ==
            Get(Get(Get(statusSourceMetric.value, "update"), "registry"), "latestVersion")
    IN  IF latestVersion # Null /\ Len(latestVersion[1]) > 0
            THEN knownMetric(latestVersion[1])
        ELSE unknownMetric(Coalesce(statusSourceMetric.reason,
                                    "latest version unavailable from status source"))

\* the loop of latestVersionFromState over the state roots from index i on
RECURSIVE latestVersionFromStateFrom(_, _)
latestVersionFromStateFrom(files, i) ==
    IF i > Len(files)
        THEN Fulfilled(unknownMetric(
                "latest version unavailable from state update-check.json"))
    ELSE LET parsed == readJsonFileWithSchema(files[i],
                            StateRoots[i] \o "/update-check.json", "updateCheck")
         IN  IF parsed.state = "rejected" THEN parsed
             ELSE IF ~parsed.value.known \/ parsed.value.value = Null
                THEN latestVersionFromStateFrom(files, i + 1)
             ELSE LET payload == parsed.value.value[1]
                      rawVersion == IF payload.latestVersion # Null THEN payload.latestVersion
                                    ELSE IF payload.latest # Null THEN payload.latest
                                    ELSE payload.version
                  IN  IF rawVersion # Null /\ Len(rawVersion[1]) > 0
                        THEN Fulfilled(knownMetric(rawVersion[1]))
                      ELSE latestVersionFromStateFrom(files, i + 1)

latestVersionFromState(files) == latestVersionFromStateFrom(files, 1)

normalizeVersionMetric(metric) ==
    IF ~metric.known \/ metric.value = Null THEN metric
    ELSE knownMetric(normalizeVersion(metric.value[1]))

\* deriveUpdateAvailabilityMetric that also reports an update for equal versions
deriveUpdateAvailabilityMetricOrEqual(installedVersion, latestVersion) ==
    IF ~installedVersion.known \/ installedVersion.value = Null
        THEN unknownMetric(Coalesce(installedVersion.reason, "installed version unknown"))
    ELSE IF ~latestVersion.known \/ latestVersion.value = Null
        THEN unknownMetric(Coalesce(latestVersion.reason, "latest version unknown"))
    ELSE knownMetric(
            compareDotVersions(latestVersion.value[1], installedVersion.value[1]) >= 0)

deriveUpdateAvailabilityMetric(installedVersion, latestVersion) ==
    IF ~installedVersion.known \/ installedVersion.value = Null
        THEN unknownMetric(Coalesce(installedVersion.reason, "installed version unknown"))
    ELSE IF ~latestVersion.known \/ latestVersion.value = Null
        THEN unknownMetric(Coalesce(latestVersion.reason, "latest version unknown"))
    ELSE knownMetric(
            compareDotVersions(latestVersion.value[1], installedVersion.value[1]) > 0)

collectVersionDriftCard(statusSourceMetric, versionResult, stateFiles) ==
    LET installedVersionMetric == normalizeVersionMetric(
            textMetricFromCommand(versionResult, "openclaw --version"))
        statusLatestVersionMetric == latestVersionFromStatus(statusSourceMetric)
        statePromise == latestVersionFromState(stateFiles)
    IN  IF statePromise.state = "rejected" THEN Rejected(statePromise.error)
        ELSE
        LET latestVersionMetric ==
                IF statusLatestVersionMetric.known
                    THEN normalizeVersionMetric(statusLatestVersionMetric)
                ELSE normalizeVersionMetric(statePromise.value)
            updateAvailableMetric ==
                deriveUpdateAvailabilityMetric(installedVersionMetric, latestVersionMetric)
        IN  Fulfilled(CollectorOutput(
                [installedVersion |-> installedVersionMetric,
                 latestVersion |-> latestVersionMetric,
                 updateAvailable |-> updateAvailableMetric],
                (IF installedVersionMetric.known THEN <<>>
                 ELSE <<buildWarning("version", "installed_version_unknown",
                            Coalesce(installedVersionMetric.reason,
                                     "installed version unknown"), "warn", Null)>>)
                \o (IF latestVersionMetric.known THEN <<>>
                    ELSE <<buildWarning("version", "latest_version_unknown",
                            Coalesce(latestVersionMetric.reason,
                                     "latest version unknown"), "warn", Null)>>)
                \o (IF updateAvailableMetric.known THEN <<>>
                    ELSE <<buildWarning("version", "update_availability_unknown",
                            Coalesce(updateAvailableMetric.reason,
                                     "update availability unknown"), "info", Null)>>)))

----------------------------------------------------------------------------
(* Compatibility check (src/unnamed/part_002:482-622).  The help text is the
   sequence of its lines; a line that names something is its indent, the
   lower-case identifier it starts with and whether white space follows. *)

HelpLine(indent, name, trailing) == [indent |-> indent, name |-> name, trailing |-> trailing]

minimumSupportedOpenClawVersion == <<<<Digits(2026), Digits(2), Digits(9)>>>>

requiredTopLevelCommands ==
    <<"status", "security", "cron", "channels", "agents", "sessions">>

parseVersionNumber(rawVersion) == versionTokenMatch(rawVersion)

compatibilityToParts(value) == toParts(value)

compatibilityCompareDotVersions(left, right) ==
    comparePartsFrom(compatibilityToParts(left), compatibilityToParts(right), 1)

\* checkOpenClawVersion that asks for a version above the minimum
checkOpenClawVersionAboveMinimum(versionResult) ==
    IF ~versionResult.ok
        THEN <<buildWarning("compatibility", "openclaw_version_unavailable",
                Coalesce(versionResult.reason, "unable to read openclaw version"),
                "warn", Null)>>
    ELSE LET rawVersion == versionResult.stdout.text
             parsedVersion == parseVersionNumber(rawVersion)
         IN  IF parsedVersion = Null
                THEN <<buildWarning("compatibility", "openclaw_version_parse_failed",
                        "unable to parse openclaw version from '"
                            \o TextToString(rawVersion) \o "'",
                        "warn", Null)>>
             ELSE IF compatibilityCompareDotVersions(parsedVersion[1],
                        minimumSupportedOpenClawVersion) > 0
                THEN <<>>
             ELSE <<buildWarning("compatibility", "openclaw_version_unsupported",
                        "detected OpenClaw " \o TextToString(parsedVersion[1])
                            \o "; clawtop expects >= "
                            \o TextToString(minimumSupportedOpenClawVersion),
                        "warn", Null)>>

checkOpenClawVersion(versionResult) ==
    IF ~versionResult.ok
        THEN <<buildWarning("compatibility", "openclaw_version_unavailable",
                Coalesce(versionResult.reason, "unable to read openclaw version"),
                "warn", Null)>>
    ELSE LET rawVersion == versionResult.stdout.text
             parsedVersion == parseVersionNumber(rawVersion)
         IN  IF parsedVersion = Null
                THEN <<buildWarning("compatibility", "openclaw_version_parse_failed",
                        "unable to parse openclaw version from '"
                            \o TextToString(rawVersion) \o "'",
                        "warn", Null)>>
             ELSE IF compatibilityCompareDotVersions(parsedVersion[1],
                        minimumSupportedOpenClawVersion) >= 0
                THEN <<>>
             ELSE <<buildWarning("compatibility", "openclaw_version_unsupported",
                        "detected OpenClaw " \o TextToString(parsedVersion[1])
                            \o "; clawtop expects >= "
                            \o TextToString(minimumSupportedOpenClawVersion),
                        "warn", Null)>>

\* the names of the lines /^\s{2}([a-z][a-z0-9-]*)\s+/ matches
parseCommandNames(helpOutput) ==
    MapField(SelectSeq(helpOutput, LAMBDA line : line.indent = 2 /\ line.trailing), "name")

collectCompatibilityWarningsInner(binaryHelpResult, versionResult) ==
    IF ~binaryHelpResult.ok
        THEN <<buildWarning("compatibility", "openclaw_binary_unavailable",
                Coalesce(binaryHelpResult.reason, "openclaw --help failed"),
                "error", Null)>>
    ELSE LET availableCommands == parseCommandNames(binaryHelpResult.stdout.text)
             missingCommands == SelectSeq(requiredTopLevelCommands,
                LAMBDA requiredCommand :
                    ~\E i \in 1..Len(availableCommands) :
                        availableCommands[i] = requiredCommand)
             missingCommandWarnings ==
                [i \in 1..Len(missingCommands) |->
                    buildWarning("compatibility", "openclaw_command_missing",
                        "openclaw command not found in --help output: "
                            \o missingCommands[i],
                        "warn", Some(missingCommands[i]))]
         IN  missingCommandWarnings \o checkOpenClawVersion(versionResult)

----------------------------------------------------------------------------
(* Repo drift collector (src/src/collectors/channels.ts:117-462).  Workspace
   paths are absolute and normalised, so path.resolve leaves them alone. *)

RECURSIVE uniqueValues(_)
uniqueValues(values) ==
    IF Len(values) = 0 THEN <<>>
    ELSE LET front == uniqueValues(SubSeq(values, 1, Len(values) - 1))
             last == values[Len(values)]
         IN  IF last = "" \/ \E i \in 1..Len(front) : front[i] = last
                THEN front
             ELSE Append(front, last)

workspacePathsFromStatus(statusSource) ==
    LET agentEntries == Coalesce(Get(Get(statusSource.value, "agents"), "agents"), <<>>)
    IN  uniqueValues([i \in 1..Len(agentEntries) |->
                        Coalesce(agentEntries[i].workspaceDir, "")])

workspacePathsFromConfig(configMetric) ==
    LET agents == Coalesce(Get(Get(configMetric.value, "agents"), "list"), <<>>)
    IN  uniqueValues([i \in 1..Len(agents) |->
                        IF agents[i].workspaceDir # Null THEN agents[i].workspaceDir[1]
                        ELSE Coalesce(agents[i].workspace, "")])

\* Number(token) when it is finite: the tokens of a count are whole numbers
\* or words
NumberOf(token) ==
    IF Len(token) = 1 /\ token[1].num THEN Some(token[1].n) ELSE Null

\* rawValue.trim().split(/\s+/), of which the first two entries are read:
\* the empty text splits into one empty entry, and Number("") is 0
parseAheadBehind(rawValue) ==
    LET ahead == IF Len(rawValue) = 0 THEN Some(0) ELSE NumberOf(rawValue[1])
        behind == IF Len(rawValue) < 2 THEN Null ELSE NumberOf(rawValue[2])
    IN  IF ahead = Null \/ behind = Null
            THEN unknownMetric("invalid ahead/behind format")
        ELSE knownMetric([ahead |-> ahead[1], behind |-> behind[1]])

firstLine(value) ==
    LET lines == SelectSeq(value, LAMBDA line : line # "")
    IN  IF Len(lines) > 0 THEN lines[1] ELSE ""

\* the messages git and runCommand produce here, all in lower case, and the
\* patterns of describeGitFailure that occur in them
NotAGitRepository == "fatal: not a git repository (or any of the parent directories): .git"
NoUpstreamConfigured == "fatal: no upstream configured for branch 'main'"
IndexUnreadable == "fatal: unable to read index file"
BadRevision == "fatal: bad revision"

Occurrences ==
    {<<"git not found", "not found">>,
     <<NotAGitRepository, "not a git repository">>,
     <<NoUpstreamConfigured, "no upstream configured">>}

\* value.includes(pattern)
Includes(value, pattern) == <<value, pattern>> \in Occurrences

includesAny(values, patterns) ==
    \E value \in values, pattern \in patterns : Includes(value, pattern)

describeGitFailure(workspacePath, resultReason, stderr, repositoryRoot) ==
    LET stderrLine == firstLine(stderr)
        searchable == {resultReason, stderrLine}
        contextPath == Coalesce(repositoryRoot, workspacePath)
        detail == IF stderrLine # "" THEN resultReason \o " (" \o stderrLine \o ")"
                  ELSE resultReason
    IN  IF includesAny(searchable, {"not found"})
            THEN LET reason == "git binary not found while checking " \o contextPath
                 IN  [warning |-> buildWarning("repoDrift", "git_not_found", reason,
                                    "error", Some(contextPath)),
                      reason |-> reason]
        ELSE IF includesAny(searchable,
                    {"not a git repository", "not in a git directory"})
            THEN LET reason == "workspace is not a git repository: " \o workspacePath
                 IN  [warning |-> buildWarning("repoDrift", "workspace_not_git_repo",
                                    reason, "warn", Some(workspacePath)),
                      reason |-> reason]
        ELSE IF includesAny(searchable,
                    {"no upstream configured", "no upstream branch",
                     "does not point to a branch", "has no upstream branch",
                     "no such branch"})
            THEN LET reason == "upstream is not configured for repository: "
                                    \o contextPath
                 IN  [warning |-> buildWarning("repoDrift", "repo_upstream_missing",
                                    reason, "info", Some(contextPath)),
                      reason |-> reason]
        ELSE LET reason == "git command failed for " \o contextPath \o ": " \o detail
             IN  [warning |-> buildWarning("repoDrift", "git_command_failed", reason,
                                "warn", Some(contextPath)),
                  reason |-> reason]

\* git holds the results of the four git commands run in the workspace
inspectWorkspace(workspacePath, git) ==
    LET rootResult == git.root
        repositoryRoot == JoinWith(rootResult.stdout.text, " ")
        statusResult == git.status
        statusFailure == describeGitFailure(workspacePath,
            Coalesce(statusResult.reason, "unable to inspect git status"),
            statusResult.stderr, Some(repositoryRoot))
        cleanMetric == IF statusResult.ok
                            THEN knownMetric(Len(statusResult.stdout.text) = 0)
                       ELSE unknownMetric(statusFailure.reason)
        statusDiagnostics == IF statusResult.ok THEN <<>> ELSE <<statusFailure.warning>>
        upstreamResult == git.upstream
        aheadBehindResult == git.revList
    IN  IF ~rootResult.ok
            THEN LET failure == describeGitFailure(workspacePath,
                        Coalesce(rootResult.reason, "unable to resolve repository root"),
                        rootResult.stderr, Null)
                 IN  [aheadCount |-> unknownMetric(failure.reason),
                      behindCount |-> unknownMetric(failure.reason),
                      clean |-> unknownMetric(failure.reason),
                      diagnostics |-> <<failure.warning>>,
                      repositoryRoot |-> unknownMetric(failure.reason),
                      workspacePath |-> workspacePath]
        ELSE IF ~upstreamResult.ok
            THEN LET upstreamFailure == describeGitFailure(workspacePath,
                        Coalesce(upstreamResult.reason, "unable to resolve upstream branch"),
                        upstreamResult.stderr, Some(repositoryRoot))
                 IN  [aheadCount |-> unknownMetric(upstreamFailure.reason),
                      behindCount |-> unknownMetric(upstreamFailure.reason),
                      clean |-> cleanMetric,
                      diagnostics |-> Append(statusDiagnostics, upstreamFailure.warning),
                      repositoryRoot |-> knownMetric(repositoryRoot),
                      workspacePath |-> workspacePath]
        ELSE IF ~aheadBehindResult.ok
            THEN LET driftFailure == describeGitFailure(workspacePath,
                        Coalesce(aheadBehindResult.reason, "unable to compute ahead/behind"),
                        aheadBehindResult.stderr, Some(repositoryRoot))
                 IN  [aheadCount |-> unknownMetric(driftFailure.reason),
                      behindCount |-> unknownMetric(driftFailure.reason),
                      clean |-> cleanMetric,
                      diagnostics |-> Append(statusDiagnostics, driftFailure.warning),
                      repositoryRoot |-> knownMetric(repositoryRoot),
                      workspacePath |-> workspacePath]
        ELSE LET parsedAheadBehindMetric == parseAheadBehind(aheadBehindResult.stdout.text)
                 reason == "invalid ahead/behind value for " \o repositoryRoot
             IN  IF ~parsedAheadBehindMetric.known \/ parsedAheadBehindMetric.value = Null
                    THEN [aheadCount |-> unknownMetric(reason),
                          behindCount |-> unknownMetric(reason),
                          clean |-> cleanMetric,
                          diagnostics |-> Append(statusDiagnostics,
                            buildWarning("repoDrift", "repo_ahead_behind_parse_failed",
                                reason, "warn", Some(repositoryRoot))),
                          repositoryRoot |-> knownMetric(repositoryRoot),
                          workspacePath |-> workspacePath]
                 ELSE [aheadCount |-> knownMetric(parsedAheadBehindMetric.value[1].ahead),
                       behindCount |-> knownMetric(parsedAheadBehindMetric.value[1].behind),
                       clean |-> cleanMetric,
                       diagnostics |-> statusDiagnostics,
                       repositoryRoot |-> knownMetric(repositoryRoot),
                       workspacePath |-> workspacePath]

RECURSIVE Flatten(_)
Flatten(lists) ==
    IF Len(lists) = 0 THEN <<>> ELSE Head(lists) \o Flatten(Tail(lists))

\* the workspaces collectRepoDriftCard inspects
discoveredWorkspaces(statusSourceMetric, configMetric) ==
    uniqueValues(workspacePathsFromStatus(statusSourceMetric)
                    \o workspacePathsFromConfig(configMetric))

\* gitRuns[i] holds the results of the git commands in the i-th workspace
collectRepoDriftCard(statusSourceMetric, configPromise, gitRuns) ==
    IF configPromise.state = "rejected" THEN Rejected(configPromise.error)
    ELSE LET configMetric == configPromise.value
             workspaces == discoveredWorkspaces(statusSourceMetric, configMetric)
         IN  IF Len(workspaces) = 0
                THEN LET reason ==
                            IF statusSourceMetric.reason # Null
                                THEN statusSourceMetric.reason[1]
                            ELSE Coalesce(configMetric.reason,
                                          "no OpenClaw workspaces discovered")
                     IN  Fulfilled(CollectorOutput(
                            aggregateRepoDrift(<<>>, reason),
                            <<buildWarning("repoDrift", "repo_workspaces_missing",
                                reason, "warn", Null)>>))
             ELSE LET drifts == [i \in 1..Len(workspaces) |->
                                    inspectWorkspace(workspaces[i], gitRuns[i])]
                  IN  Fulfilled(CollectorOutput(
                        aggregateRepoDrift(drifts, "no repositories discovered"),
                        Flatten(MapField(drifts, "diagnostics"))))

----------------------------------------------------------------------------
(* Snapshot assembly (src/src/status.ts:28-47 and 115-172) *)

\* warningKey that leaves the context out
warningKeyWithoutContext(warning) ==
    JoinWith(<<warning.source, warning.code, warning.reason>>, "|")

warningKey(warning) ==
    JoinWith(<<warning.source, warning.code, warning.reason,
               Coalesce(warning.context, "")>>, "|")

RECURSIVE uniqueWarnings(_)
uniqueWarnings(warnings) ==
    IF Len(warnings) = 0 THEN <<>>
    ELSE LET front == uniqueWarnings(SubSeq(warnings, 1, Len(warnings) - 1))
             last == warnings[Len(warnings)]
         IN  IF \E i \in 1..Len(front) : warningKey(front[i]) = warningKey(last)
                THEN front
             ELSE Append(front, last)

----------------------------------------------------------------------------
(* The healthy run of every source, and the ways each one deviates from it *)

Version(major, minor, patch) == <<<<Digits(major), Digits(minor), Digits(patch)>>>>

StatusPayload ==
    [shape |-> "status",
     agents |-> Some([agents |-> Some(<<[workspaceDir |-> Some("/workspace/1")]>>)]),
     gateway |-> Some([error |-> Null, reachable |-> Some(TRUE)]),
     securityAudit |-> Some([summary |-> Some([critical |-> 0, info |-> 0, warn |-> 0])]),
     update |-> Some([registry |-> Some([latestVersion |-> Some(Version(2026, 2, 9))])])]

StatusDeviations ==
    {[StatusPayload EXCEPT !.gateway = gateway] :
        gateway \in {Null,
                     Some([error |-> Null, reachable |-> Null]),
                     Some([error |-> Some("connect ECONNREFUSED"), reachable |-> Null]),
                     Some([error |-> Some("connect ECONNREFUSED"),
                           reachable |-> Some(FALSE)])}}
    \cup {[StatusPayload EXCEPT !.agents = agents] :
        agents \in {Null, Some([agents |-> Null]),
                    Some([agents |-> Some(<<[workspaceDir |-> Null]>>)])}}
    \cup {[StatusPayload EXCEPT !.securityAudit = audit] :
        audit \in {Null, Some([summary |-> Null]),
                   Some([summary |-> Some([critical |-> 1, info |-> 0, warn |-> 1])])}}
    \cup {[StatusPayload EXCEPT !.update = update] :
        update \in {Null, Some([registry |-> Some([latestVersion |-> Null])]),
                    Some([registry |-> Some([latestVersion |->
                                                Some(Version(2026, 2, 12))])])}}

SecurityAuditPayload ==
    [shape |-> "securityAudit", summary |-> [critical |-> 0, info |-> 0, warn |-> 0]]

SecurityAuditDeviations ==
    {[SecurityAuditPayload EXCEPT !.summary.critical = 1],
     [SecurityAuditPayload EXCEPT !.summary.warn = 1]}

CronStatusPayload == [shape |-> "cronStatus", enabled |-> TRUE, jobs |-> 1]

CronStatusDeviations == {[CronStatusPayload EXCEPT !.enabled = FALSE]}

CronJob(enabled, state) == [enabled |-> enabled, id |-> "job-1", state |-> state]

CronListPayload ==
    [shape |-> "cronList",
     jobs |-> <<CronJob(Some(TRUE),
                    Some([consecutiveErrors |-> Some(0), lastStatus |-> Some("ok")]))>>]

CronListDeviations ==
    {[CronListPayload EXCEPT !.jobs = <<CronJob(enabled, state)>>] :
        enabled \in {Some(TRUE), Null},
        state \in {Null,
                   Some([consecutiveErrors |-> Some(1), lastStatus |-> Some("ok")]),
                   Some([consecutiveErrors |-> Null, lastStatus |-> Some("error")])}}

ChannelsPayload ==
    [shape |-> "channelsStatus",
     channels |-> <<[configured |-> Some(TRUE), connected |-> Some(TRUE)]>>]

ChannelsDeviations ==
    {[ChannelsPayload EXCEPT !.channels = <<[configured |-> Some(TRUE),
                                            connected |-> connected]>>] :
        connected \in {Null, Some(FALSE)}}

AgentsListPayload == [shape |-> "agentsList", items |-> <<[id |-> "main"]>>]

AgentsListDeviations == {[AgentsListPayload EXCEPT !.items = <<>>]}

SessionsPayload == [shape |-> "sessions", count |-> Some(1), sessions |-> Null]

SessionsDeviations ==
    {[SessionsPayload EXCEPT !.count = Null, !.sessions = sessions] :
        sessions \in {Null, Some(<<"session-1", "session-2">>)}}

VersionOutput == <<<<Letters("openclaw")>>>> \o Version(2026, 2, 9)

VersionOutputDeviations ==
    {<<<<Letters("openclaw")>>>> \o Version(2026, 1, 30),
     <<<<Letters("openclaw")>>, <<Letters("dev")>>>>}

HelpOutput ==
    [i \in 1..Len(requiredTopLevelCommands) |->
        HelpLine(2, requiredTopLevelCommands[i], TRUE)]

HelpOutputDeviations ==
    {SubSeq(HelpOutput, 1, Len(HelpOutput) - 1),
     [HelpOutput EXCEPT ![3] = HelpLine(4, "cron", TRUE)]}

ConfigPayload ==
    [shape |-> "config",
     agents |-> Some([list |-> Some(<<[workspace |-> Some("/workspace/1"),
                                      workspaceDir |-> Null]>>)]),
     channels |-> Some(<<"telegram">>)]

ConfigDeviations ==
    {[ConfigPayload EXCEPT !.agents = Null],
     [ConfigPayload EXCEPT !.channels = Null],
     [ConfigPayload EXCEPT !.agents =
        Some([list |-> Some(<<[workspace |-> Null,
                               workspaceDir |-> Some("/workspace/2")]>>)])]}

UpdateCheckPayloads ==
    {[shape |-> "updateCheck", latest |-> latest, latestVersion |-> latestVersion,
      version |-> Null] :
        latest \in {Null, Some(Version(2026, 2, 12))},
        latestVersion \in {Null, Some(Version(2026, 2, 9))}}

\* how a file can be wrong: unreadable, not JSON, JSON of another shape
FileFaults == {UnreadableFile, FileWith(GarbageOut), FileWith(JsonOut(OtherJson))}

HealthyConfigFiles == <<MissingFile, FileWith(JsonOut(ConfigPayload))>>

ConfigFileChoices ==
    {<<first, second>> :
        first \in {MissingFile} \cup FileFaults
                    \cup {FileWith(JsonOut(config)) : config \in ConfigDeviations},
        second \in {MissingFile, FileWith(JsonOut(ConfigPayload))} \cup FileFaults
                    \cup {FileWith(JsonOut(config)) : config \in ConfigDeviations}}

HealthyStateFiles == <<MissingFile, MissingFile>>

StateFileChoices ==
    {<<first, second>> :
        first \in {MissingFile} \cup FileFaults
                    \cup {FileWith(JsonOut(payload)) : payload \in UpdateCheckPayloads},
        second \in {MissingFile, UnreadableFile}}

\* how many of the files differ from the healthy ones
FileCost(files, healthy) ==
    Cardinality({i \in 1..Len(files) : files[i] # healthy[i]})

Environments ==
    {[openclaw |-> openclaw, config |-> config] :
        openclaw \in BOOLEAN, config \in ConfigFileChoices}

EnvironmentCost(environment) ==
    (IF environment.openclaw THEN 0 ELSE 1)
        + FileCost(environment.config, HealthyConfigFiles)

\* the results `openclaw ...` can resolve with on this machine
OpenClawResults(documents, commandFaults) ==
    IF env.openclaw
        THEN {OkResult("openclaw", stdout) : stdout \in documents} \cup commandFaults
    ELSE {NotFoundResult("openclaw")}

JsonResults(payload, deviations) ==
    OpenClawResults({JsonOut(document) : document \in {payload} \cup deviations},
                    JsonCommandFaults)

TextResults(output, deviations) ==
    OpenClawResults({TextOut(text) : text \in {output} \cup deviations},
                    TextCommandFaults)

\* 0 for the healthy result, and for every result of a missing binary, which
\* the environment has already counted
ResultCost(result, healthyStdout) ==
    IF ~env.openclaw \/ result = OkResult("openclaw", healthyStdout) THEN 0 ELSE 1

\* the repository that holds a workspace
RepositoryRootOf(workspacePath) == "/srv" \o workspacePath

Count(n) == <<Digits(n)>>

GitFailure(stderrLine) == ExitResult("git", 128, <<stderrLine>>)

HealthyGit(workspacePath) ==
    [root |-> OkResult("git", TextOut(<<RepositoryRootOf(workspacePath)>>)),
     status |-> OkResult("git", BlankOut),
     upstream |-> OkResult("git", TextOut(<<"origin/main">>)),
     revList |-> OkResult("git", TextOut(<<Count(0), Count(0)>>))]

\* the runs of git in a workspace that differ from the healthy one in one
\* command (the commands after a failed one are not run)
GitDeviations(workspacePath) ==
    {[HealthyGit(workspacePath) EXCEPT !.root = root] :
        root \in {GitFailure(NotAGitRepository), TimeoutResult("git", GitTimeoutMs)}}
    \cup {[HealthyGit(workspacePath) EXCEPT !.status = status] :
        status \in {OkResult("git", TextOut(<<"M", "README.md">>)),
                    GitFailure(IndexUnreadable)}}
    \cup {[HealthyGit(workspacePath) EXCEPT !.upstream = GitFailure(NoUpstreamConfigured)]}
    \cup {[HealthyGit(workspacePath) EXCEPT !.revList = revList] :
        revList \in {OkResult("git", TextOut(<<Count(0), Count(1)>>)),
                     OkResult("git", TextOut(<<Count(1), Count(0)>>)),
                     OkResult("git", TextOut(<<Count(1)>>)),
                     OkResult("git", TextOut(<<<<Letters("fatal")>>, Count(0)>>)),
                     GitFailure(BadRevision)}}

\* git is not installed
MissingGit ==
    [root |-> NotFoundResult("git"), status |-> NotFoundResult("git"),
     upstream |-> NotFoundResult("git"), revList |-> NotFoundResult("git")]

\* the runs of git over the workspaces when git is installed
RECURSIVE InstalledGitRuns(_)
InstalledGitRuns(workspaces) ==
    IF Len(workspaces) = 0 THEN {<<>>}
    ELSE {<<first>> \o rest :
            first \in {HealthyGit(workspaces[1])} \cup GitDeviations(workspaces[1]),
            rest \in InstalledGitRuns(Tail(workspaces))}

GitRunChoices(workspaces) ==
    InstalledGitRuns(workspaces) \cup {[i \in 1..Len(workspaces) |-> MissingGit]}

GitCost(workspaces, gitRuns) ==
    IF Len(workspaces) = 0 THEN 0
    ELSE IF gitRuns[1] = MissingGit THEN 1
    ELSE Cardinality({i \in 1..Len(workspaces) : gitRuns[i] # HealthyGit(workspaces[i])})

----------------------------------------------------------------------------
(* collectBoardSnapshot (src/src/status.ts:115-172): the status source is
   awaited first, the gateway card is computed from it at once, and the eight
   other collectors run concurrently and settle in any order. *)

Collectors ==
    {"compatibility", "security", "cron", "channels", "agents", "sessions",
     "repoDrift", "versionDrift"}

AllPending ==
    [gateway |-> Pending, compatibility |-> Pending, security |-> Pending,
     cron |-> Pending, channels |-> Pending, agents |-> Pending,
     sessions |-> Pending, repoDrift |-> Pending, versionDrift |-> Pending]

SnapshotInit ==
    /\ pc = "start"
    /\ env \in {environment \in Environments : EnvironmentCost(environment) <= MaxFaults}
    /\ faults = EnvironmentCost(env)
    /\ collectedStatus = NoValue
    /\ outputs = AllPending
    /\ DeriveIdle
    /\ AggregateIdle
    /\ RestIdle

\* a pending collector settles, having met `cost` deviations on its way
Settle(collector, cost, promise) ==
    /\ faults + cost <= MaxFaults
    /\ faults' = faults + cost
    /\ outputs' = [outputs EXCEPT ![collector] = promise]
    /\ UNCHANGED <<pc, env, collectedStatus, deriveVars, aggregateVars, restVars>>

CollectStatusSource ==
    /\ pc = "start"
    /\ \E result \in JsonResults(StatusPayload, StatusDeviations) :
        LET cost == ResultCost(result, JsonOut(StatusPayload))
            metric == jsonMetricFromCommand(result, "status", "openclaw status --json")
        IN  /\ faults + cost <= MaxFaults
            /\ faults' = faults + cost
            /\ collectedStatus' = metric
            /\ outputs' = [outputs EXCEPT !.gateway = Fulfilled(collectGatewayCard(metric))]
    /\ pc' = "fanout"
    /\ UNCHANGED <<env, deriveVars, aggregateVars, restVars>>

CollectCompatibility ==
    /\ pc = "fanout"
    /\ outputs.compatibility.state = "pending"
    /\ \E help \in TextResults(HelpOutput, HelpOutputDeviations),
          version \in TextResults(VersionOutput, VersionOutputDeviations) :
           Settle("compatibility",
                  ResultCost(help, TextOut(HelpOutput))
                       + ResultCost(version, TextOut(VersionOutput)),
                  Fulfilled(CollectorOutput(NoValue,
                       collectCompatibilityWarningsInner(help, version))))

\* a security collector that runs `openclaw status --json` itself instead of
\* taking the result of collectBoardSnapshot
CollectSecurityWithOwnStatus ==
    /\ pc = "fanout"
    /\ outputs.security.state = "pending"
    /\ \E status \in JsonResults(StatusPayload, StatusDeviations),
          result \in JsonResults(SecurityAuditPayload, SecurityAuditDeviations) :
           Settle("security", ResultCost(result, JsonOut(SecurityAuditPayload)),
                  collectSecurityCard(
                      jsonMetricFromCommand(status, "status", "openclaw status --json"),
                      result))

CollectSecurity ==
    /\ pc = "fanout"
    /\ outputs.security.state = "pending"
    /\ \E result \in JsonResults(SecurityAuditPayload, SecurityAuditDeviations) :
           Settle("security", ResultCost(result, JsonOut(SecurityAuditPayload)),
                  collectSecurityCard(collectedStatus, result))

CollectCron ==
    /\ pc = "fanout"
    /\ outputs.cron.state = "pending"
    /\ \E status \in JsonResults(CronStatusPayload, CronStatusDeviations),
          list \in JsonResults(CronListPayload, CronListDeviations) :
           Settle("cron",
                  ResultCost(status, JsonOut(CronStatusPayload))
                       + ResultCost(list, JsonOut(CronListPayload)),
                  collectCronCard(status, list))

CollectChannels ==
    /\ pc = "fanout"
    /\ outputs.channels.state = "pending"
    /\ \E result \in JsonResults(ChannelsPayload, ChannelsDeviations) :
           Settle("channels", ResultCost(result, JsonOut(ChannelsPayload)),
                  collectChannelsCard(result, readOpenClawConfig(env.config)))

CollectAgents ==
    /\ pc = "fanout"
    /\ outputs.agents.state = "pending"
    /\ \E result \in JsonResults(AgentsListPayload, AgentsListDeviations) :
           Settle("agents", ResultCost(result, JsonOut(AgentsListPayload)),
                  collectAgentsCard(collectedStatus, result, readOpenClawConfig(env.config)))

CollectSessions ==
    /\ pc = "fanout"
    /\ outputs.sessions.state = "pending"
    /\ \E result \in JsonResults(SessionsPayload, SessionsDeviations) :
           Settle("sessions", ResultCost(result, JsonOut(SessionsPayload)),
                  collectSessionsCard(defaultActiveSessionWindowMinutes, result))

CollectRepoDrift ==
    /\ pc = "fanout"
    /\ outputs.repoDrift.state = "pending"
    /\ LET configPromise == readOpenClawConfig(env.config)
           workspaces == IF configPromise.state = "rejected" THEN <<>>
                         ELSE discoveredWorkspaces(collectedStatus, configPromise.value)
       IN  \E gitRuns \in GitRunChoices(workspaces) :
                Settle("repoDrift", GitCost(workspaces, gitRuns),
                       collectRepoDriftCard(collectedStatus, configPromise, gitRuns))

CollectVersionDrift ==
    /\ pc = "fanout"
    /\ outputs.versionDrift.state = "pending"
    /\ \E result \in TextResults(VersionOutput, VersionOutputDeviations),
          stateFiles \in StateFileChoices :
           Settle("versionDrift",
                  ResultCost(result, TextOut(VersionOutput))
                       + FileCost(stateFiles, HealthyStateFiles),
                  collectVersionDriftCard(collectedStatus, result, stateFiles))

\* Promise.all rejects as soon as one of the collectors has rejected
RejectSnapshot ==
    /\ pc = "fanout"
    /\ \E collector \in Collectors : outputs[collector].state = "rejected"
    /\ pc' = "rejected"
    /\ UNCHANGED <<env, faults, collectedStatus, outputs, deriveVars, aggregateVars, restVars>>

partialSnapshot ==
    [agents |-> outputs.agents.value.card,
     channels |-> outputs.channels.value.card,
     cron |-> outputs.cron.value.card,
     gateway |-> outputs.gateway.value.card,
     repoDrift |-> outputs.repoDrift.value.card,
     security |-> outputs.security.value.card,
     sessions |-> outputs.sessions.value.card,
     versionDrift |-> outputs.versionDrift.value.card,
     warnings |-> uniqueWarnings(
        outputs.compatibility.value.warnings
            \o outputs.gateway.value.warnings
            \o outputs.security.value.warnings
            \o outputs.cron.value.warnings
            \o outputs.channels.value.warnings
            \o outputs.agents.value.warnings
            \o outputs.sessions.value.warnings
            \o outputs.repoDrift.value.warnings
            \o outputs.versionDrift.value.warnings)]

\* every collector has fulfilled: the snapshot is assembled and returned
ReturnSnapshot ==
    /\ pc = "fanout"
    /\ \A collector \in Collectors : outputs[collector].state = "fulfilled"
    /\ snapshot' = partialSnapshot
    /\ overall' = deriveOverallCard(snapshot')
    /\ pc' = "returned"
    /\ UNCHANGED <<env, faults, collectedStatus, outputs, aggregateVars, restVars>>

SnapshotNext ==
    \/ CollectStatusSource
    \/ CollectCompatibility
    \/ CollectSecurity
    \/ CollectCron
    \/ CollectChannels
    \/ CollectAgents
    \/ CollectSessions
    \/ CollectRepoDrift
    \/ CollectVersionDrift
    \/ RejectSnapshot
    \/ ReturnSnapshot

SpecSnapshot == SnapshotInit /\ [][SnapshotNext]_vars

\* the cards of both origins: those of the snapshots collectBoardSnapshot
\* returns and those aggregateRepoDrift returns for well-formed workspaces
SpecCards ==
    (SnapshotInit \/ AggregateInit) /\ [][SnapshotNext \/ AggregateNext]_vars

----------------------------------------------------------------------------
(* The operations below are studied one at a time; the state of the others
   stays idle *)

CoreIdle == DeriveIdle /\ AggregateIdle /\ CollectIdle
CallOthersIdle == CoreIdle /\ CompatIdle /\ CommandIdle /\ RefreshIdle
CompatOthersIdle == CoreIdle /\ CallIdle /\ CommandIdle /\ RefreshIdle
CommandOthersIdle == CoreIdle /\ CallIdle /\ CompatIdle /\ RefreshIdle
RefreshOthersIdle == CoreIdle /\ CallIdle /\ CompatIdle /\ CommandIdle

----------------------------------------------------------------------------
(* Version comparison on its own: compareDotVersions (both copies) and
   deriveUpdateAvailabilityMetric applied to bounded version texts *)

MaxParts == 3       \* components of a version text

VersionComponents == {Digits(0), Digits(9), Digits(12), Letters("beta")}

VersionTexts ==
    {<<token>> : token \in UNION {[1..n -> VersionComponents] : n \in 1..MaxParts}}

\* a version metric as normalizeVersionMetric hands it on: known with a text,
\* unknown with the reason of its source, or unknown without any reason
VersionMetricOf(kind, text, label) ==
    IF kind = "known" THEN knownMetric(text)
    ELSE IF kind = "unknown" THEN unknownMetric(label \o ": openclaw not found")
    ELSE [known |-> FALSE, value |-> Null, reason |-> Null]

UnknownKinds == {"unknown", "unknownWithoutReason"}

\* the pairs of src/src/collectors/versionDrift.test.ts
VersionExamples ==
    {<<Version(2026, 2, 9), Version(2026, 2, 12)>>,
     <<Version(1, 2, 3), Version(1, 2, 3)>>,
     <<Version(2, 0, 0), Version(1, 9, 9)>>}

VersionArgs ==
    {[left |-> left, right |-> right, installed |-> "known", latest |-> "known"] :
        left \in VersionTexts, right \in VersionTexts}
    \cup {[left |-> pair[1], right |-> pair[2], installed |-> installed, latest |-> latest] :
            pair \in VersionExamples,
            installed \in UnknownKinds \cup {"known"}, latest \in UnknownKinds \cup {"known"}}

installedVersionArg == VersionMetricOf(args.installed, args.left, "openclaw --version")
latestVersionArg == VersionMetricOf(args.latest, args.right, "openclaw status --json")

VersionsInit ==
    /\ pc = "versions"
    /\ args \in VersionArgs
    /\ returned = NoValue
    /\ CallOthersIdle

CompareVersions ==
    /\ pc = "versions"
    /\ returned' = [versionDrift |-> compareDotVersions(args.left, args.right),
                    compatibility |-> compatibilityCompareDotVersions(args.left, args.right),
                    updateAvailable |->
                        deriveUpdateAvailabilityMetric(installedVersionArg, latestVersionArg)]
    /\ pc' = "compared"
    /\ UNCHANGED <<args, callOthers>>

VersionsNext == CompareVersions

SpecVersions == VersionsInit /\ [][VersionsNext]_vars

----------------------------------------------------------------------------
(* jsonMetricFromCommand on its own (src/src/collectors/openclaw.ts:129-160),
   applied to every kind of CommandResult with the schema and label of each
   of its call sites *)

JsonDocuments ==
    <<StatusPayload, SecurityAuditPayload, CronStatusPayload, CronListPayload,
      ChannelsPayload, AgentsListPayload, SessionsPayload, OtherJson>>

\* a failed run that still wrote a document to stdout
ExitResultWithOutput(command, code, stdout) ==
    [ExitResult(command, code, <<>>) EXCEPT !.stdout = stdout]

\* a failed result without a reason, which commandReason describes itself
ExitResultWithoutReason(command, code, stderr) ==
    [ExitResult(command, code, stderr) EXCEPT !.reason = Null]

CommandResults ==
    {OkResult("openclaw", JsonOut(JsonDocuments[i])) : i \in 1..Len(JsonDocuments)}
    \cup {OkResult("openclaw", BlankOut), OkResult("openclaw", GarbageOut),
          NotFoundResult("openclaw"), TimeoutResult("openclaw", JsonTimeoutMs),
          ExitResult("openclaw", 1, <<"boom">>),
          ExitResultWithoutReason("openclaw", 1, <<"boom">>),
          ExitResultWithoutReason("openclaw", 2, <<>>)}
    \cup {ExitResultWithOutput("openclaw", 1, JsonOut(JsonDocuments[i])) :
            i \in 1..Len(JsonDocuments)}

JsonCallSites ==
    {[schema |-> "status", label |-> "openclaw status --json"],
     [schema |-> "securityAudit", label |-> "openclaw security audit --json"],
     [schema |-> "cronStatus", label |-> "openclaw cron status --json"],
     [schema |-> "cronList", label |-> "openclaw cron list --all --json"],
     [schema |-> "channelsStatus", label |-> "openclaw channels status --json"],
     [schema |-> "sessions", label |-> "openclaw sessions --json --active 60"],
     [schema |-> "agentsList", label |-> "openclaw agents list --json"]}

JsonMetricInit ==
    /\ pc = "jsonMetric"
    /\ args \in {[result |-> commandResult, schema |-> site.schema, label |-> site.label] :
                    commandResult \in CommandResults, site \in JsonCallSites}
    /\ returned = NoValue
    /\ CallOthersIdle

JsonMetricFromCommand ==
    /\ pc = "jsonMetric"
    /\ returned' = jsonMetricFromCommand(args.result, args.schema, args.label)
    /\ pc' = "measured"
    /\ UNCHANGED <<args, callOthers>>

JsonMetricNext == JsonMetricFromCommand

SpecJsonMetric == JsonMetricInit /\ [][JsonMetricNext]_vars

----------------------------------------------------------------------------
(* uniqueWarnings on its own (src/src/status.ts:28-47): the collected warnings
   arrive one by one, then the list is deduplicated *)

MaxWarnings == 3    \* collected warnings in one list

UpstreamMissing ==
    buildWarning("repoDrift", "repo_upstream_missing",
                 "upstream is not configured for repository: /workspace/1",
                 "info", Some("/workspace/1"))

\* UpstreamMissing and the warnings that differ from it in exactly one of
\* source, code, reason, context (another one, or none) and severity
CollectedWarnings ==
    {UpstreamMissing,
     [UpstreamMissing EXCEPT !.source = "compatibility"],
     [UpstreamMissing EXCEPT !.code = "git_command_failed"],
     [UpstreamMissing EXCEPT !.reason = "git command failed for /workspace/1: boom"],
     [UpstreamMissing EXCEPT !.context = Some("/workspace/2")],
     [UpstreamMissing EXCEPT !.context = Null],
     [UpstreamMissing EXCEPT !.severity = "warn"]}

WarningsInit ==
    /\ pc = "collecting"
    /\ args = <<>>
    /\ returned = NoValue
    /\ CallOthersIdle

CollectWarning ==
    /\ pc = "collecting"
    /\ Len(args) < MaxWarnings
    /\ \E warning \in CollectedWarnings : args' = Append(args, warning)
    /\ UNCHANGED <<pc, returned, callOthers>>

UniqueWarnings ==
    /\ pc = "collecting"
    /\ returned' = uniqueWarnings(args)
    /\ pc' = "deduplicated"
    /\ UNCHANGED <<args, callOthers>>

WarningsNext == CollectWarning \/ UniqueWarnings

SpecWarnings == WarningsInit /\ [][WarningsNext]_vars

----------------------------------------------------------------------------
(* The compatibility check of one process (src/unnamed/part_002:578-622):
   callers of collectCompatibilityWarnings share the promise of the first
   call.  A call runs to its first await without interruption; the commands
   close later, in separate steps. *)

MaxCallers == 3     \* calls of collectCompatibilityWarnings in one process

Callers == 1..MaxCallers

HelpResults ==
    {OkResult("openclaw", TextOut(output)) : output \in {HelpOutput} \cup HelpOutputDeviations}
    \cup {NotFoundResult("openclaw"), TimeoutResult("openclaw", TextTimeoutMs)}

VersionResults ==
    {OkResult("openclaw", TextOut(output)) :
        output \in {VersionOutput} \cup VersionOutputDeviations}
    \cup {ExitResult("openclaw", 1, <<"boom">>)}

\* the check has started and has not settled
CheckInFlight ==
    /\ compatibilityWarningsPromise # Null
    /\ compatibilityWarningsPromise[1].state = "pending"

\* a cache that is consulted only once the check has settled
compatibilityCheckNeededUntilSettled(promise) ==
    promise = Null \/ promise[1].state = "pending"

\* compatibilityWarningsPromise === null
compatibilityCheckNeeded(promise) == promise = Null

CompatInit ==
    /\ pc = "compatibility"
    /\ compatibilityWarningsPromise = Null
    /\ spawned = <<>>
    /\ helpResult = NoValue
    /\ callers = [caller \in Callers |-> [state |-> "idle", warnings |-> NoValue]]
    /\ CompatOthersIdle

\* a call: the first one starts collectCompatibilityWarningsInner, which
\* spawns `openclaw --help` before it first awaits; every call then awaits
\* the cached promise
collectCompatibilityWarnings(caller) ==
    /\ pc = "compatibility"
    /\ callers[caller].state = "idle"
    /\ IF compatibilityCheckNeeded(compatibilityWarningsPromise)
        THEN /\ compatibilityWarningsPromise' = Some(Pending)
             /\ spawned' = Append(spawned, "openclaw --help")
             /\ helpResult' = NoValue
       ELSE UNCHANGED <<compatibilityWarningsPromise, spawned, helpResult>>
    /\ callers' = [callers EXCEPT ![caller].state = "awaiting"]
    /\ UNCHANGED <<pc, compatOthers>>

\* `openclaw --help` closes: a failed run settles the check, a successful one
\* goes on to checkOpenClawVersion, which spawns `openclaw --version`
HelpCloses ==
    /\ pc = "compatibility"
    /\ CheckInFlight
    /\ helpResult = NoValue
    /\ \E help \in HelpResults :
        /\ helpResult' = help
        /\ IF ~help.ok
            THEN /\ compatibilityWarningsPromise' =
                        Some(Fulfilled(collectCompatibilityWarningsInner(help, help)))
                 /\ UNCHANGED spawned
           ELSE /\ spawned' = Append(spawned, "openclaw --version")
                /\ UNCHANGED compatibilityWarningsPromise
    /\ UNCHANGED <<pc, callers, compatOthers>>

VersionCloses ==
    /\ pc = "compatibility"
    /\ CheckInFlight
    /\ helpResult # NoValue
    /\ \E version \in VersionResults :
        compatibilityWarningsPromise' =
            Some(Fulfilled(collectCompatibilityWarningsInner(helpResult, version)))
    /\ UNCHANGED <<pc, spawned, helpResult, callers, compatOthers>>

\* the await of a caller resumes with the value of the cached promise
ReceiveWarnings(caller) ==
    /\ pc = "compatibility"
    /\ callers[caller].state = "awaiting"
    /\ compatibilityWarningsPromise # Null
    /\ compatibilityWarningsPromise[1].state = "fulfilled"
    /\ callers' = [callers EXCEPT ![caller] =
                        [state |-> "received",
                         warnings |-> compatibilityWarningsPromise[1].value]]
    /\ UNCHANGED <<pc, compatibilityWarningsPromise, spawned, helpResult, compatOthers>>

CompatNext ==
    \/ \E caller \in Callers : collectCompatibilityWarnings(caller)
    \/ HelpCloses
    \/ VersionCloses
    \/ \E caller \in Callers : ReceiveWarnings(caller)

SpecCompat == CompatInit /\ [][CompatNext]_vars

----------------------------------------------------------------------------
(* runCommand (src/src/collectors/openclaw.ts:35-127): one spawned child, the
   timeout timer, the 250 ms kill timer, and the error and close handlers.
   Each handler runs to completion; the events arrive in any order Node can
   deliver them in. *)

MaxChunks == 1      \* chunks the child writes to stdout

\* the command and timeout of the callers of runCommand
CommandRequests ==
    {[command |-> "openclaw", timeoutMs |-> JsonTimeoutMs],
     [command |-> "openclaw", timeoutMs |-> TextTimeoutMs],
     [command |-> "git", timeoutMs |-> GitTimeoutMs]}

\* the codes a close event carries: an exit status, or null when the child
\* was ended by a signal
ExitCodes == {Some(0), Some(1), Null}

\* error.code of a failed spawn
SpawnErrors == {"ENOENT", "EACCES"}

\* childProcess.kill that signals whether or not the child still runs
killWithoutHandle(signal) == Append(signals, signal)

\* childProcess.kill(signal): the signal is delivered while Node holds the
\* handle of a running child; afterwards the call does nothing
kill(signal) == IF child = "running" THEN Append(signals, signal) ELSE signals

\* clearTimeout(timeoutHandle)
clearTimeout(handle) == IF handle = "armed" THEN "cleared" ELSE handle

\* a promise that takes the value of the last call of resolve
resolveOverwriting(result) == Fulfilled(result)

\* resolve(result) settles the promise the first time it is called
resolve(result) == IF settled.state = "pending" THEN Fulfilled(result) ELSE settled

collectedStdout == TextOut(stdoutParts)

\* the result the error handler resolves with (openclaw.ts:67-83)
errorResult(errorCode) ==
    [ok |-> FALSE, code |-> Null, command |-> request.command,
     reason |-> Some(IF errorCode = "ENOENT" THEN request.command \o " not found"
                     ELSE request.command \o " failed: spawn " \o request.command
                            \o " " \o errorCode),
     stderr |-> <<>>, stdout |-> collectedStdout]

\* the result the close handler resolves with (openclaw.ts:85-125)
closeResult(code) ==
    IF didTimeout
        THEN [ok |-> FALSE, code |-> code, command |-> request.command,
              reason |-> Some(request.command \o " timed out after "
                                \o ToString(request.timeoutMs) \o "ms"),
              stderr |-> <<>>, stdout |-> collectedStdout]
    ELSE IF code = Some(0)
        THEN [ok |-> TRUE, code |-> code, command |-> request.command,
              reason |-> Null, stderr |-> <<>>, stdout |-> collectedStdout]
    ELSE [ok |-> FALSE, code |-> code, command |-> request.command,
          reason |-> Some(request.command \o " exited with code "
                            \o (IF code = Null THEN "null" ELSE ToString(code[1]))),
          stderr |-> <<>>, stdout |-> collectedStdout]

\* runCommand has been called: spawn has returned a child that runs, or one
\* that failed to start and whose error event is queued for the next tick;
\* the timeout is armed
CommandInit ==
    /\ pc = "command"
    /\ request \in CommandRequests
    /\ child \in {"running"} \cup {"failed:" \o errorCode : errorCode \in SpawnErrors}
    /\ exitCode = Null
    /\ stdoutParts = <<>>
    /\ timeoutHandle = "armed"
    /\ killHandle = "none"
    /\ didTimeout = FALSE
    /\ signals = <<>>
    /\ settled = Pending
    /\ resolveCalls = 0
    /\ CommandOthersIdle

\* childProcess.stdout.on("data")
StdoutData ==
    /\ pc = "command"
    /\ child \in {"running", "exited"}
    /\ Len(stdoutParts) < MaxChunks
    /\ stdoutParts' = Append(stdoutParts, "chunk")
    /\ UNCHANGED <<pc, request, child, exitCode, timeoutHandle, killHandle, didTimeout,
                   signals, settled, resolveCalls, commandOthers>>

\* the timeout callback (openclaw.ts:59-65); the error event of a failed
\* spawn is emitted on the next tick, before any timer can fire
TimeoutFires ==
    /\ pc = "command"
    /\ timeoutHandle = "armed"
    /\ child \in {"running", "exited"}
    /\ timeoutHandle' = "fired"
    /\ didTimeout' = TRUE
    /\ signals' = kill("SIGTERM")
    /\ killHandle' = "armed"
    /\ UNCHANGED <<pc, request, child, exitCode, stdoutParts, settled, resolveCalls,
                   commandOthers>>

\* the callback of the 250 ms timer (openclaw.ts:62-64)
KillTimerFires ==
    /\ pc = "command"
    /\ killHandle = "armed"
    /\ killHandle' = "fired"
    /\ signals' = kill("SIGKILL")
    /\ UNCHANGED <<pc, request, child, exitCode, stdoutParts, timeoutHandle, didTimeout,
                   settled, resolveCalls, commandOthers>>

\* the child ends, by itself or by a signal; Node drops its handle
ChildExits ==
    /\ pc = "command"
    /\ child = "running"
    /\ \E code \in ExitCodes : exitCode' = code
    /\ child' = "exited"
    /\ UNCHANGED <<pc, request, stdoutParts, timeoutHandle, killHandle, didTimeout,
                   signals, settled, resolveCalls, commandOthers>>

\* a child that was sent SIGKILL ends without an exit status
ChildKilled ==
    /\ pc = "command"
    /\ child = "running"
    /\ \E i \in 1..Len(signals) : signals[i] = "SIGKILL"
    /\ exitCode' = Null
    /\ child' = "exited"
    /\ UNCHANGED <<pc, request, stdoutParts, timeoutHandle, killHandle, didTimeout,
                   signals, settled, resolveCalls, commandOthers>>

\* the error handler (openclaw.ts:67-83), for a child that failed to start
ChildError ==
    /\ pc = "command"
    /\ \E errorCode \in SpawnErrors :
        /\ child = "failed:" \o errorCode
        /\ settled' = resolve(errorResult(errorCode))
    /\ timeoutHandle' = clearTimeout(timeoutHandle)
    /\ resolveCalls' = resolveCalls + 1
    /\ child' = "errored"
    /\ UNCHANGED <<pc, request, exitCode, stdoutParts, killHandle, didTimeout, signals,
                   commandOthers>>

\* the close handler (openclaw.ts:85-125): after the child has ended and its
\* streams have closed, or after the error event of a failed spawn
ChildCloses ==
    /\ pc = "command"
    /\ child \in {"exited", "errored"}
    /\ timeoutHandle' = clearTimeout(timeoutHandle)
    /\ settled' = resolve(closeResult(exitCode))
    /\ resolveCalls' = resolveCalls + 1
    /\ child' = "closed"
    /\ UNCHANGED <<pc, request, exitCode, stdoutParts, killHandle, didTimeout, signals,
                   commandOthers>>

CommandNext ==
    \/ StdoutData
    \/ TimeoutFires
    \/ KillTimerFires
    \/ ChildExits
    \/ ChildKilled
    \/ ChildError
    \/ ChildCloses

SpecCommand == CommandInit /\ [][CommandNext]_vars

\* timers fire, queued events are delivered, SIGKILL ends a child and the
\* streams of an ended child close
FairSpecCommand ==
    /\ SpecCommand
    /\ WF_vars(TimeoutFires)
    /\ WF_vars(KillTimerFires)
    /\ WF_vars(ChildKilled)
    /\ WF_vars(ChildError)
    /\ WF_vars(ChildCloses)

----------------------------------------------------------------------------
(* runRefreshLoop (src/unnamed/part_002:333-389): the first frame is awaited,
   then the interval and, on a terminal, the SIGWINCH handler call
   renderFrame, which collects a snapshot unless one is being collected *)

MaxTriggers == 4    \* ticks and resize signals in one run of the loop

\* renderFrame without its guard
renderFrameStartsAlways(inFlight) == TRUE

\* the test at the head of renderFrame: a collection starts unless one is in
\* flight
renderFrameStarts(inFlight) == ~inFlight

RefreshInit ==
    /\ pc = "refresh"
    /\ terminalControlsEnabled \in BOOLEAN
    /\ renderInFlight = FALSE
    /\ collections = 0
    /\ triggers = <<>>
    /\ frames = <<>>
    /\ RefreshOthersIdle

\* renderFrame up to its await, called for the trigger `source`
renderFrame(source) ==
    IF renderFrameStarts(renderInFlight)
        THEN /\ renderInFlight' = TRUE
             /\ collections' = collections + 1
             /\ triggers' = Append(triggers, [source |-> source, did |-> "started"])
    ELSE /\ triggers' = Append(triggers, [source |-> source, did |-> "dropped"])
         /\ UNCHANGED <<renderInFlight, collections>>

\* await renderFrame() at the start of the loop
FirstFrame ==
    /\ pc = "refresh"
    /\ renderInFlight' = TRUE
    /\ collections' = collections + 1
    /\ pc' = "firstFrame"
    /\ UNCHANGED <<terminalControlsEnabled, triggers, frames, refreshOthers>>

\* the interval callback
Tick ==
    /\ pc = "looping"
    /\ Len(triggers) < MaxTriggers
    /\ renderFrame("tick")
    /\ UNCHANGED <<pc, terminalControlsEnabled, frames, refreshOthers>>

\* redrawOnResize, installed on a terminal only
Resize ==
    /\ pc = "looping"
    /\ terminalControlsEnabled
    /\ Len(triggers) < MaxTriggers
    /\ renderFrame("resize")
    /\ UNCHANGED <<pc, terminalControlsEnabled, frames, refreshOthers>>

\* a settling without the finally block: an error leaves renderInFlight set
CollectionSettlesWithoutFinally ==
    /\ pc \in {"firstFrame", "looping"}
    /\ collections > 0
    /\ \E drawn \in {"frame", "clawtop render error"} :
        /\ frames' = Append(frames, drawn)
        /\ renderInFlight' = (drawn = "clawtop render error")
    /\ collections' = collections - 1
    /\ pc' = "looping"
    /\ UNCHANGED <<terminalControlsEnabled, triggers, refreshOthers>>

\* renderCurrentSnapshot settles: the frame, or the error, is drawn and the
\* finally block clears renderInFlight; after the first frame the interval
\* and the handlers are installed
CollectionSettles ==
    /\ pc \in {"firstFrame", "looping"}
    /\ collections > 0
    /\ \E drawn \in {"frame", "clawtop render error"} : frames' = Append(frames, drawn)
    /\ renderInFlight' = FALSE
    /\ collections' = collections - 1
    /\ pc' = "looping"
    /\ UNCHANGED <<terminalControlsEnabled, triggers, refreshOthers>>

\* cleanup on SIGINT or SIGTERM: the process exits
Cleanup ==
    /\ pc = "looping"
    /\ pc' = "exited"
    /\ UNCHANGED <<refreshVars, refreshOthers>>

RefreshNext ==
    \/ FirstFrame
    \/ Tick
    \/ Resize
    \/ CollectionSettles
    \/ Cleanup

SpecRefresh == RefreshInit /\ [][RefreshNext]_vars

\* Every collection settles: each command it runs is ended by its timeout
\* at the latest and each file read completes, so renderCurrentSnapshot
\* resolves or rejects and the rest of renderFrame runs.
FairSpecRefresh == SpecRefresh /\ WF_vars(CollectionSettles)

----------------------------------------------------------------------------
(* collectCronCard on its own (src/src/collectors/cron.ts:23-88), applied to
   every pair of results of `openclaw cron status` and `openclaw cron list`
   with job lists of bounded length *)

MaxJobs == 2        \* jobs in the output of `openclaw cron list`

CronJobStates ==
    {Null,
     Some([consecutiveErrors |-> Null, lastStatus |-> Null]),
     Some([consecutiveErrors |-> Some(0), lastStatus |-> Some("ok")]),
     Some([consecutiveErrors |-> Some(1), lastStatus |-> Some("ok")]),
     Some([consecutiveErrors |-> Null, lastStatus |-> Some("error")])}

CronJobs ==
    {CronJob(enabled, state) :
        enabled \in {Some(TRUE), Some(FALSE), Null}, state \in CronJobStates}

CronJobLists == UNION {[1..n -> CronJobs] : n \in 0..MaxJobs}

CronListResults ==
    {OkResult("openclaw", JsonOut([shape |-> "cronList", jobs |-> jobs])) :
        jobs \in CronJobLists}
    \cup {OkResult("openclaw", JsonOut(OtherJson)), NotFoundResult("openclaw"),
          ExitResult("openclaw", 1, <<"boom">>)}

CronStatusResults ==
    {OkResult("openclaw", JsonOut([shape |-> "cronStatus", enabled |-> enabled, jobs |-> 1])) :
        enabled \in BOOLEAN}
    \cup {OkResult("openclaw", GarbageOut), TimeoutResult("openclaw", JsonTimeoutMs)}

CronInit ==
    /\ pc = "cron"
    /\ args \in {[statusResult |-> statusResult, listResult |-> listResult] :
                    statusResult \in CronStatusResults, listResult \in CronListResults}
    /\ returned = NoValue
    /\ CallOthersIdle

CollectCronCard ==
    /\ pc = "cron"
    /\ returned' = collectCronCard(args.statusResult, args.listResult)
    /\ pc' = "cronCollected"
    /\ UNCHANGED <<args, callOthers>>

CronNext == CollectCronCard

SpecCron == CronInit /\ [][CronNext]_vars

----------------------------------------------------------------------------
(* collectVersionDriftCard on its own (src/src/collectors/statusSource.ts:
   89-118, 143-194), applied to every status metric and every pair of
   update-check.json files under the two state roots *)

EmptyText == <<>>

RegistryChoices ==
    {Null,
     Some([registry |-> Null]),
     Some([registry |-> Some([latestVersion |-> Null])]),
     Some([registry |-> Some([latestVersion |-> Some(EmptyText)])]),
     Some([registry |-> Some([latestVersion |-> Some(Version(2026, 2, 15))])])}

LatestStatusMetrics ==
    {knownMetric([StatusPayload EXCEPT !.update = update]) : update \in RegistryChoices}
    \cup {unknownMetric("openclaw status --json timed out after 10000ms")}

FirstRootFiles ==
    {MissingFile} \cup FileFaults
    \cup {FileWith(JsonOut([shape |-> "updateCheck", latest |-> latest,
                            latestVersion |-> latestVersion, version |-> version])) :
            latestVersion \in {Null, Some(EmptyText), Some(Version(2026, 2, 12))},
            latest \in {Null, Some(Version(2026, 2, 11))},
            version \in {Null, Some(Version(2026, 2, 10))}}

SecondRootFiles ==
    {MissingFile, FileWith(GarbageOut),
     FileWith(JsonOut([shape |-> "updateCheck", latest |-> Null, latestVersion |-> Null,
                       version |-> Some(Version(2026, 1, 30))])),
     FileWith(JsonOut([shape |-> "updateCheck", latest |-> Some(EmptyText),
                       latestVersion |-> Null, version |-> Some(Version(2026, 1, 30))]))}

LatestInit ==
    /\ pc = "latest"
    /\ args \in {[statusSourceMetric |-> statusSourceMetric,
                  stateFiles |-> <<first, second>>] :
                    statusSourceMetric \in LatestStatusMetrics,
                    first \in FirstRootFiles, second \in SecondRootFiles}
    /\ returned = NoValue
    /\ CallOthersIdle

CollectVersionDriftCard ==
    /\ pc = "latest"
    /\ returned' = collectVersionDriftCard(args.statusSourceMetric,
                        OkResult("openclaw", TextOut(VersionOutput)), args.stateFiles)
    /\ pc' = "latestCollected"
    /\ UNCHANGED <<args, callOthers>>

LatestNext == CollectVersionDriftCard

SpecLatest == LatestInit /\ [][LatestNext]_vars

----------------------------------------------------------------------------
(* inspectWorkspace step by step (src/src/collectors/channels.ts:223-352):
   args.git records the result of each git command that was run, and
   NotRun for a command that was not *)

NotRun == [run |-> FALSE]

InspectedWorkspaces == {WorkspacePath(1), WorkspacePath(2)}

GitFaults(stderrLine) ==
    {GitFailure(stderrLine), TimeoutResult("git", GitTimeoutMs), NotFoundResult("git")}

RootResults(workspacePath) ==
    {OkResult("git", TextOut(<<RepositoryRootOf(workspacePath)>>)),
     OkResult("git", TextOut(<<"/repos/monorepo">>))}
    \cup GitFaults(NotAGitRepository)

StatusResults ==
    {OkResult("git", BlankOut), OkResult("git", TextOut(<<"M", "README.md">>))}
    \cup GitFaults(IndexUnreadable)

UpstreamResults ==
    {OkResult("git", TextOut(<<"origin/main">>))} \cup GitFaults(NoUpstreamConfigured)

RevListResults ==
    {OkResult("git", TextOut(<<Count(0), Count(0)>>)),
     OkResult("git", TextOut(<<Count(1), Count(0)>>)),
     OkResult("git", TextOut(<<Count(0), Count(1)>>)),
     OkResult("git", TextOut(<<Count(1)>>)),
     OkResult("git", TextOut(<<<<Letters("fatal")>>, Count(0)>>))}
    \cup GitFaults(BadRevision)

InspectInit ==
    /\ pc = "revParseTopLevel"
    /\ args \in {[workspacePath |-> workspacePath,
                  git |-> [root |-> NotRun, status |-> NotRun,
                           upstream |-> NotRun, revList |-> NotRun]] :
                    workspacePath \in InspectedWorkspaces}
    /\ returned = NoValue
    /\ CallOthersIdle

\* git -C <workspace> rev-parse --show-toplevel, and the early return
RunRevParseTopLevel ==
    /\ pc = "revParseTopLevel"
    /\ \E rootResult \in RootResults(args.workspacePath) :
        /\ args' = [args EXCEPT !.git.root = rootResult]
        /\ IF ~rootResult.ok
            THEN /\ returned' = inspectWorkspace(args.workspacePath, args'.git)
                 /\ pc' = "inspected"
           ELSE /\ pc' = "status"
                /\ UNCHANGED returned
    /\ UNCHANGED callOthers

\* the step after git status that gives up when the status command failed
RunStatusReturningOnFailure ==
    /\ pc = "status"
    /\ \E statusResult \in StatusResults :
        /\ args' = [args EXCEPT !.git.status = statusResult]
        /\ IF ~statusResult.ok
            THEN /\ returned' =
                        [aheadCount |-> unknownMetric("unable to inspect git status"),
                         behindCount |-> unknownMetric("unable to inspect git status"),
                         clean |-> unknownMetric("unable to inspect git status"),
                         diagnostics |-> <<>>,
                         repositoryRoot |->
                            knownMetric(JoinWith(args.git.root.stdout.text, " ")),
                         workspacePath |-> args.workspacePath]
                 /\ pc' = "inspected"
           ELSE /\ pc' = "upstream"
                /\ UNCHANGED returned
    /\ UNCHANGED callOthers

\* git -C <root> status --porcelain: its failure does not end the inspection
RunStatus ==
    /\ pc = "status"
    /\ \E statusResult \in StatusResults :
        args' = [args EXCEPT !.git.status = statusResult]
    /\ pc' = "upstream"
    /\ UNCHANGED <<returned, callOthers>>

\* git -C <root> rev-parse --abbrev-ref @{upstream}, and the early return
RunUpstream ==
    /\ pc = "upstream"
    /\ \E upstreamResult \in UpstreamResults :
        /\ args' = [args EXCEPT !.git.upstream = upstreamResult]
        /\ IF ~upstreamResult.ok
            THEN /\ returned' = inspectWorkspace(args.workspacePath, args'.git)
                 /\ pc' = "inspected"
           ELSE /\ pc' = "revList"
                /\ UNCHANGED returned
    /\ UNCHANGED callOthers

\* git -C <root> rev-list --left-right --count HEAD...@{upstream}, and the rest
RunRevList ==
    /\ pc = "revList"
    /\ \E aheadBehindResult \in RevListResults :
        /\ args' = [args EXCEPT !.git.revList = aheadBehindResult]
        /\ returned' = inspectWorkspace(args.workspacePath, args'.git)
    /\ pc' = "inspected"
    /\ UNCHANGED callOthers

InspectNext == RunRevParseTopLevel \/ RunStatus \/ RunUpstream \/ RunRevList

SpecInspect == InspectInit /\ [][InspectNext]_vars

----------------------------------------------------------------------------
(* The five collectors that have a fallback source, each on its own and
   applied to an available and an unavailable primary source
   (src/unnamed/part_002:442-480, src/unnamed/part_003:21-81,
   src/src/collectors/cron.ts:38-88, src/src/collectors/channels.ts:24-70,
   src/src/collectors/statusSource.ts:143-194) *)

FallbackStatusMetrics ==
    {knownMetric(StatusPayload),
     knownMetric([StatusPayload EXCEPT !.securityAudit = Null, !.agents = Null]),
     unknownMetric("openclaw status --json timed out after 10000ms")}

FallbackConfigs ==
    {readOpenClawConfig(files) :
        files \in {HealthyConfigFiles, <<MissingFile, MissingFile>>,
                   <<MissingFile, FileWith(JsonOut([ConfigPayload EXCEPT !.agents = Null]))>>}}

PrimaryResults(payload) ==
    {OkResult("openclaw", JsonOut(payload)), NotFoundResult("openclaw")}
    \cup JsonCommandFaults

FallbackCalls ==
    {[collector |-> "security", statusSourceMetric |-> statusSourceMetric,
      primary |-> primary] :
        statusSourceMetric \in FallbackStatusMetrics,
        primary \in PrimaryResults(SecurityAuditPayload)}
    \cup {[collector |-> "agents", statusSourceMetric |-> statusSourceMetric,
           primary |-> primary, configPromise |-> configPromise] :
        statusSourceMetric \in FallbackStatusMetrics,
        primary \in PrimaryResults(AgentsListPayload),
        configPromise \in FallbackConfigs}
    \cup {[collector |-> "cron", primary |-> primary, statusResult |-> statusResult] :
        primary \in PrimaryResults(CronListPayload),
        statusResult \in PrimaryResults(CronStatusPayload)}
    \cup {[collector |-> "channels", primary |-> primary,
           configPromise |-> configPromise] :
        primary \in PrimaryResults(ChannelsPayload),
        configPromise \in FallbackConfigs}
    \cup {[collector |-> "versionDrift", statusSourceMetric |-> statusSourceMetric,
           stateFiles |-> <<first, MissingFile>>] :
        statusSourceMetric \in LatestStatusMetrics,
        first \in {MissingFile, FileWith(GarbageOut),
                   FileWith(JsonOut([shape |-> "updateCheck", latest |-> Null,
                                     latestVersion |-> Some(Version(2026, 2, 12)),
                                     version |-> Null]))}}

FallbackInit ==
    /\ pc = "fallback"
    /\ args \in FallbackCalls
    /\ returned = NoValue
    /\ CallOthersIdle

Return(output) ==
    /\ returned' = output
    /\ pc' = "fallbackCollected"
    /\ UNCHANGED <<args, callOthers>>

SecurityFallsBack ==
    /\ pc = "fallback"
    /\ args.collector = "security"
    /\ Return(collectSecurityCard(args.statusSourceMetric, args.primary))

AgentsFallBack ==
    /\ pc = "fallback"
    /\ args.collector = "agents"
    /\ Return(collectAgentsCard(args.statusSourceMetric, args.primary, args.configPromise))

CronFallsBack ==
    /\ pc = "fallback"
    /\ args.collector = "cron"
    /\ Return(collectCronCard(args.statusResult, args.primary))

ChannelsFallBack ==
    /\ pc = "fallback"
    /\ args.collector = "channels"
    /\ Return(collectChannelsCard(args.primary, args.configPromise))

VersionDriftFallsBack ==
    /\ pc = "fallback"
    /\ args.collector = "versionDrift"
    /\ Return(collectVersionDriftCard(args.statusSourceMetric,
                OkResult("openclaw", TextOut(VersionOutput)), args.stateFiles))

FallbackNext ==
    \/ SecurityFallsBack
    \/ AgentsFallBack
    \/ CronFallsBack
    \/ ChannelsFallBack
    \/ VersionDriftFallsBack

SpecFallback == FallbackInit /\ [][FallbackNext]_vars

----------------------------------------------------------------------------
(* collectCompatibilityWarningsInner step by step (src/unnamed/part_002:
   527-614): args records the result of each of the two commands that was
   run, and NotRun for one that was not *)

RequiredCommands == {requiredTopLevelCommands[i] : i \in 1..Len(requiredTopLevelCommands)}

\* the help text that lists the given commands, in the order of the list
HelpListing(commands) ==
    LET listed == SelectSeq(requiredTopLevelCommands,
                            LAMBDA command : command \in commands)
    IN  [i \in 1..Len(listed) |-> HelpLine(2, listed[i], TRUE)]

HelpCheckResults ==
    {OkResult("openclaw", TextOut(HelpListing(commands))) :
        commands \in SUBSET RequiredCommands}
    \cup {OkResult("openclaw", TextOut(output)) : output \in HelpOutputDeviations}
    \cup {NotFoundResult("openclaw"), TimeoutResult("openclaw", TextTimeoutMs),
          ExitResult("openclaw", 1, <<"boom">>)}

\* `openclaw --version` printing the minimum version or a later one
SupportedVersionResults ==
    {OkResult("openclaw", TextOut(<<<<Letters("openclaw")>>>> \o version)) :
        version \in {Version(2026, 2, 9), Version(2026, 2, 10), Version(2026, 10, 0),
                     Version(2027, 1, 1)}}

\* `openclaw --version` failing, printing no version, or an earlier one
UnsupportedVersionResults ==
    {OkResult("openclaw", TextOut(<<<<Letters("openclaw")>>>> \o version)) :
        version \in {Version(2026, 2, 8), Version(2026, 1, 30), Version(2025, 12, 31)}}
    \cup {OkResult("openclaw", TextOut(<<<<Letters("openclaw")>>>>)),
          OkResult("openclaw", BlankOut),
          ExitResult("openclaw", 1, <<"boom">>),
          TimeoutResult("openclaw", TextTimeoutMs)}

CompatCheckInit ==
    /\ pc = "help"
    /\ args = [help |-> NotRun, version |-> NotRun]
    /\ returned = NoValue
    /\ CallOthersIdle

\* `openclaw --help`, and the early return when it fails
RunOpenClawHelp ==
    /\ pc = "help"
    /\ \E binaryHelpResult \in HelpCheckResults :
        /\ args' = [args EXCEPT !.help = binaryHelpResult]
        /\ IF ~binaryHelpResult.ok
            THEN /\ returned' = collectCompatibilityWarningsInner(binaryHelpResult,
                                                                  args.version)
                 /\ pc' = "checked"
           ELSE /\ pc' = "version"
                /\ UNCHANGED returned
    /\ UNCHANGED callOthers

\* checkOpenClawVersion: `openclaw --version`, and the list that is returned
RunOpenClawVersion ==
    /\ pc = "version"
    /\ \E versionResult \in SupportedVersionResults \cup UnsupportedVersionResults :
        /\ args' = [args EXCEPT !.version = versionResult]
        /\ returned' = collectCompatibilityWarningsInner(args.help, versionResult)
    /\ pc' = "checked"
    /\ UNCHANGED callOthers

CompatCheckNext == RunOpenClawHelp \/ RunOpenClawVersion

SpecCompatCheck == CompatCheckInit /\ [][CompatCheckNext]_vars

----------------------------------------------------------------------------
(* Claims about deriveOverallCard, checked under SpecDerive *)

IsKnown(metric) == metric.known /\ metric.value # Null
KnownPositive(metric) == IsKnown(metric) /\ metric.value[1] > 0
KnownZero(metric) == IsKnown(metric) /\ metric.value[1] = 0
KnownFalse(metric) == IsKnown(metric) /\ metric.value[1] = FALSE
KnownTrue(metric) == IsKnown(metric) /\ metric.value[1] = TRUE

NineWatched(s) ==
    <<s.security.critical, s.security.warning, s.cron.failingOrRecentErrorCount,
      s.channels.configuredCount, s.gateway.reachable, s.repoDrift.clean,
      s.repoDrift.behindCount, s.versionDrift.installedVersion,
      s.versionDrift.latestVersion>>

WatchedUnknown(s) == {i \in 1..9 : ~NineWatched(s)[i].known}

AnyWatchedUnknown(s) == WatchedUnknown(s) # {}

RedConditionHolds(s) ==
    \/ KnownPositive(s.security.critical)
    \/ KnownPositive(s.cron.failingOrRecentErrorCount)
    \/ KnownFalse(s.gateway.reachable)

AmberConditionHolds(s) ==
    \/ KnownPositive(s.security.warning)
    \/ KnownFalse(s.repoDrift.clean)
    \/ KnownPositive(s.repoDrift.behindCount)
    \/ AnyWatchedUnknown(s)

RedReasonTexts ==
    {"critical security findings > 0", "failing cron jobs > 0", "gateway unreachable"}

AmberReasonTexts ==
    {"warning findings > 0", "unknown state in critical cards",
     "repo drift: dirty repository", "repo drift: behind upstream"}

RedReasonsThatHold(s) ==
    {reason \in RedReasonTexts :
        \/ reason = "critical security findings > 0" /\ KnownPositive(s.security.critical)
        \/ reason = "failing cron jobs > 0"
            /\ KnownPositive(s.cron.failingOrRecentErrorCount)
        \/ reason = "gateway unreachable" /\ KnownFalse(s.gateway.reachable)}

\* C1: the level is RED iff a RED condition holds (critical findings known > 0,
\* failing cron count known > 0, gateway known unreachable), otherwise AMBER iff
\* an AMBER condition holds (warning findings known > 0, repository known dirty
\* or known behind, or one of the nine watch-list metrics unknown), otherwise
\* GREEN; when the three RED metrics are all unknown the level is AMBER, not RED.
C1_LevelByStrictPrecedence ==
    pc = "derived" =>
        /\ overall.level =
            IF RedConditionHolds(snapshot) THEN "RED"
            ELSE IF AmberConditionHolds(snapshot) THEN "AMBER"
            ELSE "GREEN"
        /\ (/\ ~snapshot.security.critical.known
            /\ ~snapshot.cron.failingOrRecentErrorCount.known
            /\ ~snapshot.gateway.reachable.known) => overall.level = "AMBER"

C1_Witness ==
    /\ pc = "derived"
    /\ ~snapshot.security.critical.known
    /\ ~snapshot.cron.failingOrRecentErrorCount.known
    /\ ~snapshot.gateway.reachable.known
    /\ KnownPositive(snapshot.security.warning)
    /\ overall.level = "AMBER"

\* C2: a RED card lists every RED reason whose condition holds, each once, and
\* nothing else: no AMBER reason even when AMBER conditions hold as well.
C2_RedReasonsExactlyThoseThatHold ==
    (pc = "derived" /\ overall.level = "RED") =>
        /\ SeqToSet(overall.reasons) = RedReasonsThatHold(snapshot)
        /\ Len(overall.reasons) = Cardinality(RedReasonsThatHold(snapshot))
        /\ SeqToSet(overall.reasons) \cap AmberReasonTexts = {}

C2_Witness ==
    /\ pc = "derived"
    /\ overall.level = "RED"
    /\ Len(overall.reasons) = 3
    /\ KnownPositive(snapshot.security.warning)
    /\ KnownFalse(snapshot.repoDrift.clean)
    /\ KnownPositive(snapshot.repoDrift.behindCount)
    /\ ~snapshot.versionDrift.latestVersion.known

\* C3: with no RED condition holding, an unknown watch-list metric gives AMBER
\* and the reason "unknown state in critical cards" exactly once, however many
\* watch-list metrics are unknown.
C3_UnknownWatchedGivesAmberOnce ==
    (pc = "derived" /\ ~RedConditionHolds(snapshot) /\ AnyWatchedUnknown(snapshot)) =>
        /\ overall.level = "AMBER"
        /\ CountIn(overall.reasons, "unknown state in critical cards") = 1

C3_Witness ==
    /\ pc = "derived"
    /\ ~RedConditionHolds(snapshot)
    /\ Cardinality(WatchedUnknown(snapshot)) = 9
    /\ overall.level = "AMBER"
    /\ overall.reasons = <<"unknown state in critical cards">>

\* C4: when all nine watch-list metrics are known and healthy the card is GREEN
\* with the single reason "all health checks passed".
C4_HealthyGivesGreen ==
    (/\ pc = "derived"
     /\ KnownZero(snapshot.security.critical)
     /\ KnownZero(snapshot.security.warning)
     /\ KnownZero(snapshot.cron.failingOrRecentErrorCount)
     /\ IsKnown(snapshot.channels.configuredCount)
     /\ KnownTrue(snapshot.gateway.reachable)
     /\ KnownTrue(snapshot.repoDrift.clean)
     /\ KnownZero(snapshot.repoDrift.behindCount)
     /\ IsKnown(snapshot.versionDrift.installedVersion)
     /\ IsKnown(snapshot.versionDrift.latestVersion)) =>
        overall = [level |-> "GREEN", reasons |-> <<"all health checks passed">>]

C4_Witness ==
    /\ pc = "derived"
    /\ snapshot = healthySnapshot
    /\ overall.level = "GREEN"

----------------------------------------------------------------------------
(* Claims about aggregateRepoDrift, checked under SpecAggregate *)

Aggregated == pc = "aggregated"

NonEmptyAggregated == Aggregated /\ Len(workspaceDrifts) > 0

KnownDirtyWorkspaces == {i \in 1..Len(workspaceDrifts) : KnownFalse(workspaceDrifts[i].clean)}

UnknownCleanWorkspaces == {i \in 1..Len(workspaceDrifts) : ~workspaceDrifts[i].clean.known}

UnknownIn(field) == {i \in 1..Len(workspaceDrifts) : ~workspaceDrifts[i][field].known}

Minimum(S) == CHOOSE i \in S : \A j \in S : i <= j

RECURSIVE SumOver(_, _)
SumOver(field, n) ==
    IF n = 0 THEN 0 ELSE workspaceDrifts[n][field].value[1] + SumOver(field, n - 1)

\* C7: for a non-empty list, clean is known false if some workspace is known
\* dirty (whatever the others are), otherwise unknown if some workspace's
\* cleanliness is unknown, otherwise known true.
C7_CleanDirtyIsDecisive ==
    NonEmptyAggregated =>
        IF KnownDirtyWorkspaces # {} THEN KnownFalse(card.clean)
        ELSE IF UnknownCleanWorkspaces # {}
            THEN ~card.clean.known /\ card.clean.value = Null
        ELSE KnownTrue(card.clean)

C7_Witness ==
    /\ NonEmptyAggregated
    /\ ~workspaceDrifts[1].clean.known
    /\ Len(workspaceDrifts) >= 2
    /\ KnownFalse(workspaceDrifts[2].clean)
    /\ KnownFalse(card.clean)

\* C8: for a non-empty list, dirtyCount is known iff every workspace's
\* cleanliness is known, and then it is the number of known-dirty workspaces;
\* so a known-dirty workspace next to one of unknown cleanliness gives clean
\* known false with dirtyCount unknown.
C8_DirtyCountNeedsEveryWorkspace ==
    NonEmptyAggregated =>
        /\ card.dirtyCount.known <=> UnknownCleanWorkspaces = {}
        /\ card.dirtyCount.known =>
            card.dirtyCount.value = Some(Cardinality(KnownDirtyWorkspaces))
        /\ (KnownDirtyWorkspaces # {} /\ UnknownCleanWorkspaces # {}) =>
            KnownFalse(card.clean) /\ ~card.dirtyCount.known

C8_Witness ==
    /\ NonEmptyAggregated
    /\ Len(workspaceDrifts) = 2
    /\ KnownFalse(workspaceDrifts[1].clean)
    /\ ~workspaceDrifts[2].clean.known
    /\ KnownFalse(card.clean)
    /\ ~card.dirtyCount.known

CountAggregatedAsClaimed(field) ==
    /\ card[field].known <=> UnknownIn(field) = {}
    /\ card[field].known =>
        card[field].value = Some(SumOver(field, Len(workspaceDrifts)))
    /\ ~card[field].known =>
        /\ card[field].value = Null
        /\ card[field].reason = workspaceDrifts[Minimum(UnknownIn(field))][field].reason

\* C9: for a non-empty list, aheadCount (and likewise behindCount) is known iff
\* it is known in every workspace, and then it is the sum over the workspaces;
\* otherwise it is unknown with the reason of the first workspace, in list
\* order, in which it is unknown.
C9_AheadBehindSummedOrFirstUnknown ==
    NonEmptyAggregated =>
        /\ CountAggregatedAsClaimed("aheadCount")
        /\ CountAggregatedAsClaimed("behindCount")

C9_Witness ==
    /\ NonEmptyAggregated
    /\ Len(workspaceDrifts) = 2
    /\ UnknownIn("aheadCount") = {1, 2}
    /\ workspaceDrifts[1].aheadCount.reason # workspaceDrifts[2].aheadCount.reason
    /\ card.aheadCount.reason = workspaceDrifts[1].aheadCount.reason
    /\ card.behindCount = knownMetric(2)

AllUnknownWith(reason) ==
    \A field \in {"clean", "dirtyCount", "aheadCount", "behindCount", "repositoryCount"} :
        card[field] = [known |-> FALSE, value |-> Null, reason |-> Some(reason)]

\* C10: on an empty list clean, dirtyCount, aheadCount, behindCount and
\* repositoryCount are all unknown with the caller's reason and the workspaces
\* list is empty; on a non-empty list repositoryCount is known and is the
\* number of workspaces whose repositoryRoot is known.
C10_EmptyListAndRepositoryCount ==
    Aggregated =>
        IF Len(workspaceDrifts) = 0
            THEN AllUnknownWith(missingWorkspaceReason) /\ card.workspaces = <<>>
        ELSE card.repositoryCount =
                [known |-> TRUE,
                 value |-> Some(Cardinality(
                    {i \in 1..Len(workspaceDrifts) :
                        workspaceDrifts[i].repositoryRoot.known})),
                 reason |-> Null]

C10_Witness ==
    /\ Aggregated
    /\ Len(workspaceDrifts) = 0
    /\ missingWorkspaceReason = "missing"
    /\ card.repositoryCount = unknownMetric("missing")

----------------------------------------------------------------------------
(* Claims about collectBoardSnapshot, checked under SpecSnapshot and SpecCards *)

\* C5: collectBoardSnapshot never fails, whatever faults the external sources
\* and the local files (missing, unreadable or malformed) show: no collector
\* rejects and the collection is never aborted.
C5_CollectionNeverAborts ==
    /\ pc # "rejected"
    /\ pc \in {"fanout", "returned"} =>
            \A collector \in Collectors : outputs[collector].state # "rejected"

WellFormedMetric(metric) ==
    /\ metric.known => metric.value # Null
    /\ ~metric.known => metric.value = Null /\ metric.reason # Null

WorkspaceMetrics(workspace) ==
    <<workspace.aheadCount, workspace.behindCount, workspace.clean,
      workspace.repositoryRoot>>

RepoDriftMetrics(repoDrift) ==
    <<repoDrift.aheadCount, repoDrift.behindCount, repoDrift.clean,
      repoDrift.dirtyCount, repoDrift.repositoryCount>>
        \o Flatten([i \in 1..Len(repoDrift.workspaces) |->
                        WorkspaceMetrics(repoDrift.workspaces[i])])

SnapshotMetrics(s) ==
    <<s.agents.configuredCount,
      s.channels.configuredCount, s.channels.connectedCount,
      s.cron.enabledCount, s.cron.failingOrRecentErrorCount,
      s.gateway.error, s.gateway.reachable,
      s.security.critical, s.security.info, s.security.warning,
      s.sessions.activeCount,
      s.versionDrift.installedVersion, s.versionDrift.latestVersion,
      s.versionDrift.updateAvailable>>
        \o RepoDriftMetrics(s.repoDrift)

AllWellFormed(metrics) ==
    \A i \in 1..Len(metrics) : WellFormedMetric(metrics[i])

\* C6: every metric of every card of a returned snapshot, and of every card
\* aggregateRepoDrift returns for well-formed workspaces, is well-formed:
\* known implies a value that is not null, unknown implies a null value and a
\* reason.
C6_EveryMetricWellFormed ==
    /\ pc = "returned" => AllWellFormed(SnapshotMetrics(snapshot))
    /\ pc = "aggregated" => AllWellFormed(RepoDriftMetrics(card))

\* a returned snapshot whose gateway block had no reachable flag: the metric
\* is unknown, next to known metrics of the other cards
C6_Witness ==
    /\ pc = "returned"
    /\ collectedStatus.known
    /\ Get(collectedStatus.value[1].gateway, "reachable") = Null
    /\ ~snapshot.gateway.reachable.known
    /\ snapshot.security.critical.known
    /\ Len(snapshot.repoDrift.workspaces) > 0

----------------------------------------------------------------------------
(* Order of the workspaces, checked under SpecAggregate *)

FiveMetrics(driftCard) ==
    <<driftCard.clean, driftCard.dirtyCount, driftCard.aheadCount,
      driftCard.behindCount, driftCard.repositoryCount>>

\* the card of the same two workspaces in the other order
SwappedCard ==
    aggregateRepoDrift(<<workspaceDrifts[2], workspaceDrifts[1]>>, missingWorkspaceReason)

TwoAggregated == Aggregated /\ Len(workspaceDrifts) = 2

\* C11, as the claim states it: aggregating [A, B] and [B, A] yields
\* identical clean, dirtyCount, aheadCount, behindCount and repositoryCount
\* metrics.
C11_OrderInsensitive ==
    TwoAggregated => FiveMetrics(SwappedCard) = FiveMetrics(card)

\* the reason of a workspace whose metric of that field is unknown
TrueUnknownReason(field, reason) ==
    \E i \in UnknownIn(field) : workspaceDrifts[i][field].reason = reason

\* C11, amended: aggregating [A, B] and [B, A] yields the same known flag and
\* the same value for clean, dirtyCount, aheadCount, behindCount and
\* repositoryCount; the reason of an unknown clean, aheadCount or behindCount
\* is, in either order, the reason of one of the unknown workspaces, and may
\* differ between the orders.
C11_OrderInsensitiveUpToReason ==
    TwoAggregated =>
        /\ \A i \in 1..5 :
            /\ FiveMetrics(SwappedCard)[i].known = FiveMetrics(card)[i].known
            /\ FiveMetrics(SwappedCard)[i].value = FiveMetrics(card)[i].value
        /\ \A field \in {"clean", "aheadCount", "behindCount"} :
            ~card[field].known =>
                /\ TrueUnknownReason(field, card[field].reason)
                /\ TrueUnknownReason(field, SwappedCard[field].reason)

\* two workspaces whose ahead counts are unknown for different reasons: the
\* sums agree in both orders, the surfaced reason does not
C11_Witness ==
    /\ TwoAggregated
    /\ UnknownIn("aheadCount") = {1, 2}
    /\ card.behindCount = knownMetric(1)
    /\ SwappedCard.behindCount = knownMetric(1)
    /\ card.aheadCount.reason = workspaceDrifts[1].aheadCount.reason
    /\ SwappedCard.aheadCount.reason = workspaceDrifts[2].aheadCount.reason
    /\ card.aheadCount # SwappedCard.aheadCount

----------------------------------------------------------------------------
(* Claims about the version comparison, checked under SpecVersions *)

Compared == pc = "compared"

\* component i of a one-token version text as a number: 0 when it is missing
\* or not a number
ReferenceComponent(text, i) ==
    IF i <= Len(text[1]) /\ text[1][i].num THEN text[1][i].n ELSE 0

\* the comparison of the two versions as tuples padded to the longer length
ReferenceCompare(left, right) ==
    LET longer == Max(Len(left[1]), Len(right[1]))
        differing == {i \in 1..longer :
                        ReferenceComponent(left, i) # ReferenceComponent(right, i)}
    IN  IF differing = {} THEN 0
        ELSE LET first == CHOOSE i \in differing : \A j \in differing : i <= j
             IN  IF ReferenceComponent(left, first) < ReferenceComponent(right, first)
                    THEN -1
                 ELSE 1

\* C12: both copies of compareDotVersions return the sign of the comparison
\* of the two versions as numeric tuples (split on ".", a component that is
\* not a number counts as 0, a missing trailing component counts as 0);
\* "2026.2.9" against "2026.2.12" gives -1, equal versions give 0 and
\* "2.0.0" against "1.9.9" gives 1
C12_CompareDotVersionsIsTupleOrder ==
    Compared =>
        /\ returned.versionDrift = ReferenceCompare(args.left, args.right)
        /\ returned.compatibility = ReferenceCompare(args.left, args.right)
        /\ returned.versionDrift \in {-1, 0, 1}
        /\ (args.left = Version(2026, 2, 9) /\ args.right = Version(2026, 2, 12))
                => returned.versionDrift = -1
        /\ args.left = args.right => returned.versionDrift = 0
        /\ (args.left = Version(2, 0, 0) /\ args.right = Version(1, 9, 9))
                => returned.versionDrift = 1

\* "9" against "9.beta.12": the shorter version is padded with 0 and the
\* component that is not a number counts as 0, so the third component decides
C12_Witness ==
    /\ Compared
    /\ args.left = <<<<Digits(9)>>>>
    /\ args.right = <<<<Digits(9), Letters("beta"), Digits(12)>>>>
    /\ returned.versionDrift = -1
    /\ returned.compatibility = -1

\* the reason that names the unknown side: the reason the side came with, or
\* "<side> version unknown" when it came with none
SideReason(metric, side) == Coalesce(metric.reason, side \o " version unknown")

\* C13: the update-availability metric is unknown iff the installed or the
\* latest version is unknown, and its reason is then the reason of the unknown
\* side (of the installed side when both are unknown); when both are known it
\* is known, and true iff the latest version is strictly greater than the
\* installed one, so equal versions give known false
C13_UpdateAvailability ==
    Compared =>
        LET update == returned.updateAvailable
            installed == installedVersionArg
            latest == latestVersionArg
        IN  /\ ~update.known <=> (~installed.known \/ ~latest.known)
            /\ ~installed.known
                => update = unknownMetric(SideReason(installed, "installed"))
            /\ (installed.known /\ ~latest.known)
                => update = unknownMetric(SideReason(latest, "latest"))
            /\ (installed.known /\ latest.known)
                => update = knownMetric(ReferenceCompare(args.right, args.left) = 1)
            /\ (installed.known /\ latest.known /\ args.left = args.right)
                => update = knownMetric(FALSE)

\* installed "9.12", latest "12": a shorter but greater latest version gives
\* known true
C13_Witness ==
    /\ Compared
    /\ args.installed = "known" /\ args.latest = "known"
    /\ args.left = <<<<Digits(9), Digits(12)>>>>
    /\ args.right = <<<<Digits(12)>>>>
    /\ returned.updateAvailable = knownMetric(TRUE)

----------------------------------------------------------------------------
(* Claims about jsonMetricFromCommand, checked under SpecJsonMetric *)

Measured == pc = "measured"

\* the four conditions of a usable output, in the order they are tested
CommandSucceeded == args.result.ok
OutputNonEmpty == args.result.stdout.text # <<>>
OutputParses == args.result.stdout.json # Null
OutputMatchesSchema == args.result.stdout.json[1].shape = args.schema

\* what a failed result says of its failure: its reason, or else its exit
\* code and stderr
FailureCause ==
    IF args.result.reason # Null THEN args.result.reason[1]
    ELSE args.result.command \o " exited with code " \o ToString(args.result.code[1])
            \o (IF args.result.stderr = <<>> THEN ""
                ELSE " (" \o JoinWith(args.result.stderr, "\n") \o ")")

Labelled(cause) == Some(args.label \o ": " \o cause)

\* C14: the metric is known, and carries the parsed document, iff the command
\* succeeded, wrote a non-empty output that parses as JSON and matches the
\* schema; otherwise it is unknown and its reason tells the first cause that
\* applies in the order command failure, empty output, JSON parse error,
\* schema mismatch
C14_JsonMetricCauseInOrder ==
    Measured =>
        /\ returned.known
            <=> (CommandSucceeded /\ OutputNonEmpty /\ OutputParses /\ OutputMatchesSchema)
        /\ returned.known => returned = knownMetric(args.result.stdout.json[1])
        /\ ~returned.known => returned.value = Null
        /\ ~CommandSucceeded => returned.reason = Labelled(FailureCause)
        /\ (CommandSucceeded /\ ~OutputNonEmpty)
            => returned.reason = Labelled("empty output")
        /\ (CommandSucceeded /\ OutputNonEmpty /\ ~OutputParses)
            => /\ ~returned.known
               /\ returned.reason
                    \notin {Labelled("empty output"), Labelled("schema mismatch"), Null}
        /\ (CommandSucceeded /\ OutputNonEmpty /\ OutputParses /\ ~OutputMatchesSchema)
            => returned.reason = Labelled("schema mismatch")

\* a failed run whose output is a document of the right schema: the failure
\* is what the metric reports
C14_Witness ==
    /\ Measured
    /\ ~CommandSucceeded /\ OutputNonEmpty /\ OutputParses /\ OutputMatchesSchema
    /\ returned = unknownMetric("openclaw status --json: openclaw exited with code 1")

----------------------------------------------------------------------------
(* Claims about uniqueWarnings, checked under SpecWarnings *)

Deduplicated == pc = "deduplicated"

SameWarning(left, right) ==
    /\ left.source = right.source
    /\ left.code = right.code
    /\ left.reason = right.reason
    /\ left.context = right.context

\* the positions of the collected warnings that no earlier warning equals in
\* source, code, reason and context
FirstOccurrences ==
    {i \in 1..Len(args) : \A j \in 1..(i - 1) : ~SameWarning(args[j], args[i])}

\* the k-th of these positions
NthFirstOccurrence(k) ==
    CHOOSE i \in FirstOccurrences :
        Cardinality({j \in FirstOccurrences : j < i}) = k - 1

\* C15: the snapshot's warnings are the collected warnings without those that
\* equal an earlier one in source, code, reason and context: such warnings
\* collapse into their first occurrence, and warnings that differ in any of
\* the four fields all remain, in the order they were collected
C15_WarningsCollapseOnFourFields ==
    Deduplicated =>
        /\ Len(returned) = Cardinality(FirstOccurrences)
        /\ \A k \in 1..Len(returned) : returned[k] = args[NthFirstOccurrence(k)]

\* the same warning collected twice (the second time with another severity)
\* around one that differs in context only: two warnings remain, the first
\* occurrence with its own severity and the one with the other context
C15_Witness ==
    /\ Deduplicated
    /\ args = <<UpstreamMissing,
                [UpstreamMissing EXCEPT !.context = Some("/workspace/2")],
                [UpstreamMissing EXCEPT !.severity = "warn"]>>
    /\ returned = <<UpstreamMissing,
                    [UpstreamMissing EXCEPT !.context = Some("/workspace/2")]>>

----------------------------------------------------------------------------
(* Claims about the compatibility check, checked under SpecCompat *)

HelpSpawns == Cardinality({i \in 1..Len(spawned) : spawned[i] = "openclaw --help"})

Received == {caller \in Callers : callers[caller].state = "received"}

\* C16: whatever the number of calls of collectCompatibilityWarnings and
\* however they overlap, `openclaw --help` is spawned at most once (exactly
\* once as soon as there has been a call), and all callers that have their
\* answer have the same warning list
C16_CompatibilityCheckedOnce ==
    pc = "compatibility" =>
        /\ HelpSpawns <= 1
        /\ (\E caller \in Callers : callers[caller].state # "idle") => HelpSpawns = 1
        /\ \A first \in Received, second \in Received :
                callers[first].warnings = callers[second].warnings
        /\ \A caller \in Received :
                callers[caller].warnings = compatibilityWarningsPromise[1].value

\* one caller has its answer, a second one is still waiting and the third has
\* not called yet: one spawn of `openclaw --help` serves them all
C16_Witness ==
    /\ pc = "compatibility"
    /\ callers[1].state = "received" /\ Len(callers[1].warnings) > 0
    /\ callers[2].state = "awaiting"
    /\ callers[3].state = "idle"
    /\ HelpSpawns = 1

----------------------------------------------------------------------------
(* Claims about runCommand, checked under SpecCommand and FairSpecCommand *)

SignalsSoFar ==
    /\ signals \in {<<>>, <<"SIGTERM">>, <<"SIGTERM", "SIGKILL">>}
    /\ signals # <<>> => didTimeout /\ timeoutHandle = "fired"
    /\ (\E i \in 1..Len(signals) : signals[i] = "SIGKILL") => killHandle = "fired"
    /\ timeoutHandle = "cleared" => signals = <<>> /\ killHandle = "none"

SignalOnlyToRunningChild ==
    signals' # signals => child = "running" /\ child' = "running"

Settled == pc = "command" /\ settled.state = "fulfilled"

SpawnFailed ==
    \/ child \in {"failed:" \o errorCode : errorCode \in SpawnErrors} \cup {"errored"}
    \/ child = "closed" /\ resolveCalls = 2

TimedOutText == request.command \o " timed out after " \o ToString(request.timeoutMs) \o "ms"

\* the result in terms of what happened to the child
ResultAsClaimed ==
    LET commandResult == settled.value
    IN  /\ commandResult.ok
            <=> (child = "closed" /\ ~SpawnFailed /\ exitCode = Some(0) /\ ~didTimeout)
        /\ SpawnFailed
            => /\ commandResult.code = Null
               /\ commandResult.reason
                    \in {Some(request.command \o " not found"),
                         Some(request.command \o " failed: spawn " \o request.command
                                \o " EACCES")}
        /\ (~SpawnFailed /\ didTimeout)
            => /\ commandResult.reason = Some(TimedOutText)
               /\ commandResult.code = exitCode
        /\ (~SpawnFailed /\ ~didTimeout /\ exitCode # Some(0))
            => /\ commandResult.code = exitCode
               /\ commandResult.reason # Some(TimedOutText)
               /\ commandResult.reason # Null
        /\ commandResult.ok => commandResult.reason = Null

\* C18: whatever the order of the error event, the close event and the
\* timeout, the promise settles, once: the first call of resolve fixes the
\* result and later calls change nothing.  The result is ok iff the child
\* closed with code 0 and the timeout had not fired; a failed spawn gives code
\* null with its reason, a fired timeout gives "timed out" whatever the exit
\* code, any other close gives "exited with code"
C18_ExactlyOneResult ==
    /\ [](pc = "command" => (resolveCalls > 0 <=> settled.state = "fulfilled"))
    /\ [](Settled => ResultAsClaimed)
    /\ [][settled.state = "fulfilled" => settled' = settled]_vars
    /\ (pc = "command" => <>Settled)

\* the child ended with code 0, the timeout fired before its streams closed:
\* the result is the timeout, with code 0
C18_Witness ==
    /\ Settled
    /\ child = "closed" /\ exitCode = Some(0) /\ didTimeout
    /\ settled.value.reason = Some(TimedOutText)
    /\ settled.value.code = Some(0)
    /\ ~settled.value.ok

----------------------------------------------------------------------------
(* Claims about the refresh loop, checked under SpecRefresh *)

Refreshing == pc \in {"refresh", "firstFrame", "looping", "exited"}

Triggered == Len(triggers') = Len(triggers) + 1

AtMostOneCollection ==
    /\ collections \in {0, 1}
    /\ renderInFlight <=> collections = 1

\* a tick or resize during a collection starts nothing and leaves the
\* running collection alone
TriggerInFlightIsDropped ==
    (Triggered /\ renderInFlight)
        => /\ collections' = collections
           /\ renderInFlight'
           /\ triggers'[Len(triggers')].did = "dropped"

\* a collection starts only in the step of the first frame or of a trigger
\* that finds none in flight, so a dropped trigger is not made up for when
\* the running collection settles; and a collection ends only by settling,
\* with its frame drawn
CollectionsStartOnTriggerOnly ==
    /\ collections' > collections
        => ~renderInFlight /\ (pc = "refresh" \/ Triggered)
    /\ collections' < collections
        => Len(frames') = Len(frames) + 1 /\ ~Triggered

\* C19: in the refresh loop at most one snapshot collection is in flight; a
\* tick or resize that arrives during a collection starts no new one, does
\* not cancel the running one, and is dropped rather than queued
C19_OneCollectionInFlight ==
    /\ [](Refreshing => AtMostOneCollection)
    /\ [][TriggerInFlightIsDropped]_vars
    /\ [][CollectionsStartOnTriggerOnly]_vars

\* a tick started a collection, a resize signal arrived while it was running
\* and was dropped, and the collection is still in flight
C19_Witness ==
    /\ pc = "looping"
    /\ Len(triggers) >= 2
    /\ triggers[Len(triggers) - 1] = [source |-> "tick", did |-> "started"]
    /\ triggers[Len(triggers)] = [source |-> "resize", did |-> "dropped"]
    /\ renderInFlight /\ collections = 1

----------------------------------------------------------------------------
(* Claims about the order of collectBoardSnapshot, checked under SpecSnapshot *)

InSnapshot == pc \in {"start", "fanout", "returned", "rejected"}

\* nothing has been collected while the status query is outstanding
NothingBeforeStatus ==
    pc = "start" => collectedStatus = NoValue /\ outputs = AllPending

\* the status result is set in one step, the one that ends the query
StatusSetOnce ==
    collectedStatus' # collectedStatus => pc = "start" /\ pc' = "fanout"

\* what each collector that takes statusSourceMetric can return for the
\* status result collectBoardSnapshot holds
SecurityOutputs ==
    {collectSecurityCard(collectedStatus, result) :
        result \in JsonResults(SecurityAuditPayload, SecurityAuditDeviations)}

AgentsOutputs ==
    {collectAgentsCard(collectedStatus, result, readOpenClawConfig(env.config)) :
        result \in JsonResults(AgentsListPayload, AgentsListDeviations)}

VersionDriftOutputs ==
    {collectVersionDriftCard(collectedStatus, result, stateFiles) :
        result \in TextResults(VersionOutput, VersionOutputDeviations),
        stateFiles \in StateFileChoices}

RepoDriftOutputs ==
    LET configPromise == readOpenClawConfig(env.config)
        workspaces == IF configPromise.state = "rejected" THEN <<>>
                      ELSE discoveredWorkspaces(collectedStatus, configPromise.value)
    IN  {collectRepoDriftCard(collectedStatus, configPromise, gitRuns) :
            gitRuns \in GitRunChoices(workspaces)}

SameStatusForAll ==
    pc \in {"fanout", "returned", "rejected"} =>
        /\ collectedStatus # NoValue
        /\ outputs.gateway = Fulfilled(collectGatewayCard(collectedStatus))
        /\ outputs.security.state # "pending" => outputs.security \in SecurityOutputs
        /\ outputs.agents.state # "pending" => outputs.agents \in AgentsOutputs
        /\ outputs.versionDrift.state # "pending"
            => outputs.versionDrift \in VersionDriftOutputs
        /\ outputs.repoDrift.state # "pending" => outputs.repoDrift \in RepoDriftOutputs

OverallAfterAllCollectors ==
    /\ (InSnapshot /\ pc # "returned") => overall = NoValue
    /\ pc = "returned"
        => /\ \A collector \in Collectors : outputs[collector].state = "fulfilled"
           /\ snapshot = partialSnapshot
           /\ overall = deriveOverallCard(snapshot)

\* C20: in a call of collectBoardSnapshot the status query completes, once,
\* before anything else is collected; the gateway, security, agents, repo
\* drift and version drift collectors all work from that one result; and
\* the overall card is derived only when every collector has fulfilled
C20_StatusOnceThenFanOutThenOverall ==
    /\ [](NothingBeforeStatus /\ SameStatusForAll /\ OverallAfterAllCollectors)
    /\ [][StatusSetOnce]_vars

\* the status query failed: the gateway card, made from that result, does not
\* know whether the gateway is reachable; every collector has fulfilled and
\* the snapshot is returned with its overall card
C20_Witness ==
    /\ pc = "returned"
    /\ ~collectedStatus.known
    /\ ~outputs.gateway.value.card.reachable.known
    /\ \A collector \in Collectors : outputs[collector].state = "fulfilled"
    /\ overall # NoValue

----------------------------------------------------------------------------
(* Claims about the collectors, checked on the outputs of SpecSnapshot *)

StatusCollected == pc \in {"fanout", "returned", "rejected"}

\* the status payload is there and carries a boolean gateway.reachable
ReachableInPayload ==
    /\ collectedStatus.known
    /\ collectedStatus.value # Null
    /\ collectedStatus.value[1].gateway # Null
    /\ collectedStatus.value[1].gateway[1].reachable # Null

SeveritiesOf(warnings) == [i \in 1..Len(warnings) |-> warnings[i].severity]

\* C21: the gateway card's reachable is known iff the status payload carries
\* a boolean gateway.reachable; the collector emits exactly one error warning
\* when reachable is known false, exactly one warn warning when it is
\* unknown, and none when it is known true
C21_GatewayWarningByReachability ==
    StatusCollected =>
        LET gatewayOutput == outputs.gateway.value
            reachable == gatewayOutput.card.reachable
        IN  /\ reachable.known <=> ReachableInPayload
            /\ reachable.known
                => reachable = knownMetric(collectedStatus.value[1].gateway[1].reachable[1])
            /\ reachable = knownMetric(FALSE)
                => SeveritiesOf(gatewayOutput.warnings) = <<"error">>
            /\ ~reachable.known
                => SeveritiesOf(gatewayOutput.warnings) = <<"warn">>
            /\ reachable = knownMetric(TRUE) => gatewayOutput.warnings = <<>>

\* the status payload says the gateway is not reachable: one error warning
C21_Witness ==
    /\ StatusCollected
    /\ ReachableInPayload
    /\ outputs.gateway.value.card.reachable = knownMetric(FALSE)
    /\ Len(outputs.gateway.value.warnings) = 1
    /\ outputs.gateway.value.warnings[1].code = "gateway_unreachable"
    /\ outputs.gateway.value.warnings[1].severity = "error"

----------------------------------------------------------------------------
(* Claims about collectCronCard, checked under SpecCron *)

CronCollected == pc = "cronCollected"

CronListMetric ==
    jsonMetricFromCommand(args.listResult, "cronList", "openclaw cron list --all --json")

CronStatusMetric ==
    jsonMetricFromCommand(args.statusResult, "cronStatus", "openclaw cron status --json")

ListedJobs == CronListMetric.value[1].jobs

EnabledJobs == {i \in 1..Len(ListedJobs) : ListedJobs[i].enabled = Some(TRUE)}

\* an enabled job with consecutiveErrors > 0 or with a lastStatus other than "ok"
FailingJobs ==
    {i \in EnabledJobs :
        /\ ListedJobs[i].state # Null
        /\ \/ /\ ListedJobs[i].state[1].consecutiveErrors # Null
              /\ ListedJobs[i].state[1].consecutiveErrors[1] > 0
           \/ /\ ListedJobs[i].state[1].lastStatus # Null
              /\ ListedJobs[i].state[1].lastStatus[1] # "ok"}

\* C22: the cron card comes from the job list when the list command
\* succeeds: enabledCount is the number of enabled jobs and
\* failingOrRecentErrorCount the number of enabled jobs with consecutive
\* errors or a last status other than "ok"; when only the status command
\* succeeds, enabledCount comes from it and failingOrRecentErrorCount is
\* unknown; when both fail, both are unknown
C22_CronListPreferred ==
    CronCollected =>
        LET cronCard == returned.value.card
        IN  /\ returned.state = "fulfilled"
            /\ CronListMetric.known
                => /\ cronCard.enabledCount = knownMetric(Cardinality(EnabledJobs))
                   /\ cronCard.failingOrRecentErrorCount
                        = knownMetric(Cardinality(FailingJobs))
            /\ (~CronListMetric.known /\ CronStatusMetric.known)
                => /\ cronCard.enabledCount
                        = knownMetric(IF CronStatusMetric.value[1].enabled
                                        THEN CronStatusMetric.value[1].jobs ELSE 0)
                   /\ ~cronCard.failingOrRecentErrorCount.known
            /\ (~CronListMetric.known /\ ~CronStatusMetric.known)
                => /\ ~cronCard.enabledCount.known
                   /\ ~cronCard.failingOrRecentErrorCount.known

\* two jobs with errors, one of them disabled, and a status command that
\* reports cron disabled: the list wins, one enabled job, one failing
C22_Witness ==
    /\ CronCollected
    /\ CronListMetric.known /\ CronStatusMetric.known
    /\ ~CronStatusMetric.value[1].enabled
    /\ Len(ListedJobs) = 2
    /\ Cardinality(EnabledJobs) = 1
    /\ \A i \in 1..2 : ListedJobs[i].state
                        = Some([consecutiveErrors |-> Some(1), lastStatus |-> Some("ok")])
    /\ returned.value.card.enabledCount = knownMetric(1)
    /\ returned.value.card.failingOrRecentErrorCount = knownMetric(1)

----------------------------------------------------------------------------
(* Claims about the latest version, checked under SpecLatest *)

LatestCollected == pc = "latestCollected" /\ returned.state = "fulfilled"

RegistryLatestVersion ==
    IF ~args.statusSourceMetric.known THEN Null
    ELSE LET update == args.statusSourceMetric.value[1].update
         IN  IF update = Null THEN Null
             ELSE IF update[1].registry = Null THEN Null
             ELSE update[1].registry[1].latestVersion

StatusProvidesLatest ==
    RegistryLatestVersion # Null /\ RegistryLatestVersion[1] # EmptyText

UpdateCheckParses(i) ==
    /\ args.stateFiles[i].exists /\ args.stateFiles[i].readable
    /\ args.stateFiles[i].content.json # Null
    /\ args.stateFiles[i].content.json[1].shape = "updateCheck"

UpdateCheckFields(i) ==
    LET payload == args.stateFiles[i].content.json[1]
    IN  <<payload.latestVersion, payload.latest, payload.version>>

NonEmptyFields(i) ==
    SelectSeq(UpdateCheckFields(i), LAMBDA field : field # Null /\ field[1] # EmptyText)

\* the state roots whose update-check.json parses and has a non-empty
\* latestVersion, latest or version field
RootsWithVersion ==
    {i \in 1..Len(args.stateFiles) : UpdateCheckParses(i) /\ NonEmptyFields(i) # <<>>}

FirstRootWithVersion == CHOOSE i \in RootsWithVersion : \A j \in RootsWithVersion : i <= j

\* C23: the latest version is the status payload's update-registry field
\* when it is present; otherwise it comes from the first state root, in
\* priority order, whose update-check.json parses and has a non-empty
\* latestVersion, latest or version field; it is unknown only when neither
\* source provides one
C23_LatestVersionBySource ==
    LatestCollected =>
        LET latestVersion == returned.value.card.latestVersion
        IN  /\ StatusProvidesLatest
                => latestVersion = knownMetric(normalizeVersion(RegistryLatestVersion[1]))
            /\ (~StatusProvidesLatest /\ RootsWithVersion # {})
                => latestVersion = knownMetric(
                        normalizeVersion(NonEmptyFields(FirstRootWithVersion)[1][1]))
            /\ (~StatusProvidesLatest /\ RootsWithVersion = {}) => ~latestVersion.known

\* the field the code looks at in a parsed file: latestVersion ?? latest ?? version
FirstDefinedField(i) ==
    LET defined == SelectSeq(UpdateCheckFields(i), LAMBDA field : field # Null)
    IN  IF defined = <<>> THEN Null ELSE defined[1]

RootsAccepted ==
    {i \in 1..Len(args.stateFiles) :
        /\ UpdateCheckParses(i)
        /\ FirstDefinedField(i) # Null /\ FirstDefinedField(i)[1] # EmptyText}

\* what the code does instead: a root is accepted only when the first
\* defined one of its three fields is non-empty
LatestVersionByFirstDefinedField ==
    LatestCollected =>
        LET latestVersion == returned.value.card.latestVersion
        IN  /\ StatusProvidesLatest
                => latestVersion = knownMetric(normalizeVersion(RegistryLatestVersion[1]))
            /\ (~StatusProvidesLatest /\ RootsAccepted # {})
                => \E i \in RootsAccepted :
                    /\ \A j \in RootsAccepted : i <= j
                    /\ latestVersion
                        = knownMetric(normalizeVersion(FirstDefinedField(i)[1]))
            /\ (~StatusProvidesLatest /\ RootsAccepted = {}) => ~latestVersion.known

\* an update-check.json with an empty latestVersion and a usable latest
\* field is passed over and the latest version ends up unknown
C23_Witness ==
    /\ LatestCollected
    /\ ~StatusProvidesLatest
    /\ UpdateCheckParses(1)
    /\ UpdateCheckFields(1)[1] = Some(EmptyText)
    /\ UpdateCheckFields(1)[2] = Some(Version(2026, 2, 11))
    /\ RootsAccepted = {}
    /\ ~returned.value.card.latestVersion.known

----------------------------------------------------------------------------
(* Claims about inspectWorkspace, checked under SpecInspect *)

Inspected == pc = "inspected"

Ran(step) == args.git[step] # NotRun

Succeeded(step) == Ran(step) /\ args.git[step].ok

Failed(step) == Ran(step) /\ ~args.git[step].ok

\* C24: inspectWorkspace runs its git steps in order and a failed step
\* makes only the metrics that depend on it unknown: a failed root
\* resolution makes repositoryRoot, clean, aheadCount and behindCount unknown
\* and no further step runs; once the root resolved, repositoryRoot is
\* known, a failed status makes only clean unknown while the upstream and
\* ahead/behind steps still run, and a failed upstream or rev-list step
\* makes aheadCount and behindCount unknown while clean keeps its value
C24_FailedStepHidesOnlyItsMetrics ==
    /\ Ran("status") => Succeeded("root")
    /\ Ran("upstream") => Ran("status")
    /\ Ran("revList") => Succeeded("upstream")
    /\ Inspected =>
        /\ Ran("root")
        /\ Failed("root") =>
            /\ ~returned.repositoryRoot.known /\ ~returned.clean.known
            /\ ~returned.aheadCount.known /\ ~returned.behindCount.known
            /\ ~Ran("status") /\ ~Ran("upstream") /\ ~Ran("revList")
        /\ Succeeded("root") =>
            /\ returned.repositoryRoot
                = knownMetric(JoinWith(args.git.root.stdout.text, " "))
            /\ Ran("status") /\ Ran("upstream")
            /\ Succeeded("upstream") => Ran("revList")
            /\ returned.clean.known <=> Succeeded("status")
            /\ Succeeded("status")
                => returned.clean = knownMetric(args.git.status.stdout.text = <<>>)
            /\ (Failed("upstream") \/ Failed("revList"))
                => ~returned.aheadCount.known /\ ~returned.behindCount.known
            /\ (Failed("status") /\ Succeeded("revList")
                    /\ parseAheadBehind(args.git.revList.stdout.text).known)
                => returned.aheadCount.known /\ returned.behindCount.known

\* git status failed, the two later steps ran and succeeded: clean is
\* unknown and the ahead/behind counts are known
C24_Witness ==
    /\ Inspected
    /\ Succeeded("root") /\ Failed("status")
    /\ Succeeded("upstream") /\ Succeeded("revList")
    /\ returned.repositoryRoot.known
    /\ ~returned.clean.known
    /\ returned.aheadCount = knownMetric(1)
    /\ returned.behindCount = knownMetric(0)

----------------------------------------------------------------------------
(* Claims about the fallback sources, checked under SpecFallback *)

FallbackCollected == pc = "fallbackCollected" /\ returned.state = "fulfilled"

PrimarySchema ==
    [security |-> "securityAudit", agents |-> "agentsList", cron |-> "cronList",
     channels |-> "channelsStatus"]

\* the primary source of the collector gave a value
PrimaryAvailable ==
    IF args.collector = "versionDrift" THEN StatusProvidesLatest
    ELSE /\ args.primary.ok
         /\ args.primary.stdout.json # Null
         /\ args.primary.stdout.json[1].shape = PrimarySchema[args.collector]

\* the metric of the card that a fallback source can provide
FallbackMetric ==
    LET fallbackCard == returned.value.card
    IN  CASE args.collector = "security" -> fallbackCard.critical
          [] args.collector = "agents" -> fallbackCard.configuredCount
          [] args.collector = "cron" -> fallbackCard.enabledCount
          [] args.collector = "channels" -> fallbackCard.configuredCount
          [] args.collector = "versionDrift" -> fallbackCard.latestVersion

FromFallback == FallbackCollected /\ ~PrimaryAvailable /\ FallbackMetric.known

WarnsOfDegradedPath ==
    \E i \in 1..Len(returned.value.warnings) :
        returned.value.warnings[i].severity = "warn"

\* C25: whenever a collector's card value comes from a fallback source
\* because its primary source was unavailable (security and agents from the
\* status payload, agents and channels from the config file, the cron
\* enabled count from cron status, the latest version from
\* update-check.json), the collector's warnings include a warning of
\* severity warn
C25_FallbackAlwaysWarns == FromFallback => WarnsOfDegradedPath

\* the same for the four collectors other than version drift
FallbackWarnsExceptLatestVersion ==
    (FromFallback /\ args.collector # "versionDrift") => WarnsOfDegradedPath

\* the latest version read from update-check.json, and no warning at all
C25_Witness ==
    /\ FromFallback
    /\ args.collector = "versionDrift"
    /\ returned.value.card.latestVersion = knownMetric(Version(2026, 2, 12))
    /\ returned.value.warnings = <<>>

----------------------------------------------------------------------------
(* Claims about the compatibility check, checked under SpecCompatCheck *)

CompatChecked == pc = "checked"

\* the required commands the help output does not list with an indent of two
MissingFromHelp ==
    RequiredCommands \
        {args.help.stdout.text[i].name :
            i \in {j \in 1..Len(args.help.stdout.text) :
                    /\ args.help.stdout.text[j].indent = 2
                    /\ args.help.stdout.text[j].trailing}}

WarningsWithCode(code) == SelectSeq(returned, LAMBDA warning : warning.code = code)

VersionWarnings ==
    SelectSeq(returned, LAMBDA warning :
        warning.code \in {"openclaw_version_unavailable", "openclaw_version_parse_failed",
                           "openclaw_version_unsupported"})

\* C26: a failed `openclaw --help` gives exactly one warning, of severity
\* error, and the version check does not run; after a successful one there
\* is one warn warning for each required command missing from the help
\* output, plus one warn warning when the version command fails, prints no
\* version or prints one below the minimum, and no version warning when the
\* version is the minimum or later
C26_CompatibilityWarnings ==
    /\ args.version # NotRun => (args.help # NotRun /\ args.help.ok)
    /\ CompatChecked =>
        /\ args.help # NotRun
        /\ ~args.help.ok =>
            /\ Len(returned) = 1
            /\ returned[1].severity = "error"
            /\ args.version = NotRun
        /\ args.help.ok =>
            /\ args.version # NotRun
            /\ \A i \in 1..Len(returned) : returned[i].severity = "warn"
            /\ Len(WarningsWithCode("openclaw_command_missing"))
                = Cardinality(MissingFromHelp)
            /\ \A command \in MissingFromHelp :
                \E i \in 1..Len(returned) :
                    /\ returned[i].code = "openclaw_command_missing"
                    /\ returned[i].context = Some(command)
            /\ Len(VersionWarnings)
                = (IF args.version \in SupportedVersionResults THEN 0 ELSE 1)
            /\ Len(returned)
                = Len(WarningsWithCode("openclaw_command_missing")) + Len(VersionWarnings)

\* two commands missing from the help output and the minimum version
\* installed: two warnings, none about the version
C26_Witness ==
    /\ CompatChecked
    /\ args.help.ok
    /\ MissingFromHelp = {"cron", "sessions"}
    /\ args.version = OkResult("openclaw",
                        TextOut(<<<<Letters("openclaw")>>>> \o Version(2026, 2, 9)))
    /\ Len(returned) = 2
    /\ VersionWarnings = <<>>

----------------------------------------------------------------------------
(* Claims about the fields deriveOverallCard reads, checked under SpecDerive *)

\* the count metrics of a snapshot that are not on the watch list
UnwatchedCounts ==
    {<<"agents", "configuredCount">>, <<"channels", "connectedCount">>,
     <<"cron", "enabledCount">>, <<"security", "info">>,
     <<"sessions", "activeCount">>, <<"repoDrift", "aheadCount">>,
     <<"repoDrift", "dirtyCount">>, <<"repoDrift", "repositoryCount">>}

OtherCounts == {unknownMetric("not collected"), knownMetric(7)}

OtherFlags == {unknownMetric("not collected"), knownMetric(TRUE)}

OtherTexts == {unknownMetric("not collected"), knownMetric("connect ECONNREFUSED")}

\* the snapshot with every unwatched metric replaced
WithAllUnwatched(s, count, flag, text) ==
    [s EXCEPT !.agents.configuredCount = count, !.channels.connectedCount = count,
              !.cron.enabledCount = count, !.security.info = count,
              !.sessions.activeCount = count, !.repoDrift.aheadCount = count,
              !.repoDrift.dirtyCount = count, !.repoDrift.repositoryCount = count,
              !.versionDrift.updateAvailable = flag, !.gateway.error = text]

\* snapshots with the nine watched metrics of s and other fields elsewhere
SameWatched(s) ==
    {[s EXCEPT ![field[1]][field[2]] = count] :
        field \in UnwatchedCounts, count \in OtherCounts}
    \cup {[s EXCEPT !.versionDrift.updateAvailable = flag] : flag \in OtherFlags}
    \cup {[s EXCEPT !.gateway.error = text] : text \in OtherTexts}
    \cup {WithAllUnwatched(s, count, flag, text) :
            count \in OtherCounts, flag \in OtherFlags, text \in OtherTexts}
    \cup {[s EXCEPT !.warnings = <<buildWarning("sessions", "sessions_unknown",
                                        "not collected", "warn", Null)>>,
                    !.sessions.activeWindowMinutes = 5,
                    !.repoDrift.workspaces = <<[workspacePath |-> "/workspace/1"]>>]}

\* C27: deriveOverallCard depends only on the nine watch-list metrics: a
\* snapshot that agrees with the derived one on those nine metrics gets the
\* same level and the same reasons, whatever its other fields hold
C27_OnlyWatchListRead ==
    pc = "derived" =>
        \A other \in SameWatched(snapshot) :
            /\ NineWatched(other) = NineWatched(snapshot)
            /\ other # snapshot
            /\ deriveOverallCard(other) = overall

\* a green snapshot stays green with every unwatched metric unknown
C27_Witness ==
    /\ pc = "derived"
    /\ overall.level = "GREEN"
    /\ ~AnyWatchedUnknown(snapshot)
    /\ LET other == WithAllUnwatched(snapshot, unknownMetric("not collected"),
                        unknownMetric("not collected"), unknownMetric("not collected"))
       IN  /\ ~other.sessions.activeCount.known
           /\ deriveOverallCard(other) = overall

----------------------------------------------------------------------------
(* Claims that relate two metrics of the aggregated card, checked under
   SpecAggregate *)

\* C28: for a non-empty list of well-formed workspace records the clean and
\* dirtyCount metrics of the card never contradict each other: when
\* dirtyCount is known, clean is known, and true exactly when dirtyCount is
\* 0; when clean is known and true, dirtyCount is known and 0
C28_CleanAgreesWithDirtyCount ==
    NonEmptyAggregated =>
        /\ card.dirtyCount.known
            => /\ card.clean.known
               /\ card.clean.value = Some(card.dirtyCount.value = Some(0))
        /\ KnownTrue(card.clean) => card.dirtyCount = knownMetric(0)

\* a dirty workspace next to a clean one: dirtyCount is known and 1, and
\* clean is known and false
C28_Witness ==
    /\ NonEmptyAggregated
    /\ Len(workspaceDrifts) = 2
    /\ KnownDirtyWorkspaces = {1}
    /\ KnownTrue(workspaceDrifts[2].clean)
    /\ card.dirtyCount = knownMetric(1)
    /\ card.clean = knownMetric(FALSE)

----------------------------------------------------------------------------
(* Claims about the returned snapshot as a whole, checked under SpecSnapshot *)

SnapshotReturned == pc = "returned"

----------------------------------------------------------------------------
(* Claims about the release of the in-flight guard, checked under
   FairSpecRefresh *)

\* the step in which a collection settles and its frame is drawn
FrameDrawn == Len(frames') = Len(frames) + 1

\* the interval callback runs while no collection is in flight
TickWhileIdle ==
    /\ ~renderInFlight
    /\ Len(triggers') = Len(triggers) + 1
    /\ triggers'[Len(triggers')].source = "tick"

\* C30: the in-flight guard of the refresh loop is always released: when a
\* collection finishes, with a frame or with an error frame, the guard is
\* cleared and the loop keeps running; the next timer tick then starts a
\* new collection; and a guard that is set is eventually cleared unless the
\* process exits
C30_GuardAlwaysReleased ==
    /\ [][FrameDrawn =>
            /\ frames'[Len(frames')] \in {"frame", "clawtop render error"}
            /\ renderInFlight' = FALSE
            /\ pc' = "looping"]_vars
    /\ [][TickWhileIdle =>
            /\ triggers'[Len(triggers')].did = "started"
            /\ renderInFlight' = TRUE
            /\ collections' = collections + 1]_vars
    /\ (renderInFlight ~> (~renderInFlight \/ pc = "exited"))

\* the first collection failed, its error frame was drawn, and the next
\* tick started a new collection
C30_Witness ==
    /\ pc = "looping"
    /\ frames = <<"clawtop render error">>
    /\ triggers = <<[source |-> "tick", did |-> "started"]>>
    /\ renderInFlight
    /\ collections = 1

====
